---- MODULE Spec2Model ----
(***************************************************************************)
(* A model of the link-sharing server: the JSON documents on disk, the     *)
(* express sessions, the login rate limiter of routes/auth.js and the      *)
(* admin routes of routes/admin.js.  Every request handler is one action.  *)
(***************************************************************************)
EXTENDS Integers, Sequences, FiniteSets, TLC

VARIABLES
    links,          \* data/links.json: the array of link objects
    theme,          \* data/theme.json
    profile,        \* data/profile.json
    config,         \* data/config.json
    auth,           \* data/auth.json
    loginAttempts,  \* the Map ip -> {count, firstAttempt} of routes/auth.js
    sess,           \* the session store: session id -> session data
    now,            \* Date.now(), in milliseconds
    nextId,         \* number of identifiers generateUUID has handed out, plus one
    req,            \* the request handled last
    resp,           \* the response sent to it
    failedLogins,   \* history: per address, when its latest login POSTs failed
    inflight,       \* the handlers suspended at an await, with what they hold
    page            \* the admin page in the browser: its icon search

docs == <<links, theme, profile, config, auth>>
vars == <<links, theme, profile, config, auth, loginAttempts, sess, now, nextId, req, resp,
          failedLogins, inflight, page>>

----------------------------------------------------------------------------
(* Bounds of the model *)

MaxIds == 3         \* identifiers generateUUID hands out in one behaviour
MaxPayload == 2     \* longest linkIds list of a reorder request
MaxFieldLinks == 2  \* links created in a behaviour of SpecFields
MaxTicks == 4       \* clock ticks in one behaviour
MaxRaceLinks == 2   \* links created in a behaviour with suspended handlers
MaxClockSteps == 5  \* steps of the clock of the admin page
MaxTimers == 3      \* timers the admin page sets in one behaviour
MaxFetches == 2     \* searches of the admin page that await their answer

----------------------------------------------------------------------------
(* JSON values.  A value is a record [k, s]: k is the JavaScript type and  *)
(* s the content; a string is the sequence of its pieces, where " " is a   *)
(* blank and every other piece is a run of non-blank characters.           *)

SP == " "
Undefined == [k |-> "undefined", s |-> <<>>]
Str(seq) == [k |-> "string", s |-> seq]
Bool(b) == [k |-> "boolean", s |-> IF b THEN <<"true">> ELSE <<"false">>]
Num == [k |-> "number", s |-> <<"7">>]
EmptyStr == Str(<<>>)
\* an array, as a JSON body or a form field named x[] carries it
Arr(seq) == [k |-> "array", s |-> seq]

IsString(v) == v.k = "string"

\* JavaScript truthiness: undefined, "" and false are falsy
Truthy(v) ==
    CASE v.k = "undefined" -> FALSE
      [] v.k = "string" -> v.s # <<>>
      [] v.k = "boolean" -> v.s = <<"true">>
      [] OTHER -> TRUE

RECURSIVE TrimStart(_)
TrimStart(seq) ==
    IF seq = <<>> THEN <<>>
    ELSE IF Head(seq) = SP THEN TrimStart(Tail(seq)) ELSE seq

RECURSIVE TrimEnd(_)
TrimEnd(seq) ==
    IF seq = <<>> THEN <<>>
    ELSE IF seq[Len(seq)] = SP THEN TrimEnd(SubSeq(seq, 1, Len(seq) - 1)) ELSE seq

\* String.prototype.trim
Trim(v) == Str(TrimEnd(TrimStart(v.s)))

\* String(v), the conversion a RegExp test and the URL constructor apply to
\* their argument: an array is its elements joined by ","
RECURSIVE JSToString(_)
JSToString(v) ==
    CASE v.k = "undefined" -> <<"undefined">>
      [] v.k = "array" ->
            IF v.s = <<>> THEN <<>>
            ELSE IF Len(v.s) = 1 THEN JSToString(v.s[1])
            ELSE JSToString(v.s[1]) \o <<",">> \o JSToString(Arr(Tail(v.s)))
      [] OTHER -> v.s

\* v.trim() throws a TypeError unless v is a string
TrimThrows(v) == ~IsString(v)

\* the absolute URLs of the model and their schemes
UrlScheme ==
    [x \in {"http://a.example", "https://b.example", "https://b.example/p.png",
            "ftp://c.example"} |->
        CASE x = "http://a.example" -> "http:"
          [] x = "https://b.example" -> "https:"
          [] x = "https://b.example/p.png" -> "https:"
          [] OTHER -> "ftp:"]

\* new URL(url): the parser strips leading and trailing blanks; what is
\* left must be one absolute URL, otherwise the constructor throws
UrlParses(v) ==
    LET input == Trim(Str(JSToString(v))).s
    IN  Len(input) = 1 /\ input[1] \in DOMAIN UrlScheme

isValidURL(url) ==
    IF UrlParses(url)
    THEN UrlScheme[Trim(Str(JSToString(url))).s[1]] \in {"http:", "https:"}
    ELSE FALSE

HexDigits ==
    {"0", "1", "2", "3", "4", "5", "6", "7", "8", "9",
     "a", "b", "c", "d", "e", "f", "A", "B", "C", "D", "E", "F"}

\* /^#[0-9A-Fa-f]{6}$/ ; a colour string is the sequence of its characters
isValidHexColor(color) ==
    LET str == JSToString(color)
    IN  /\ Len(str) = 7
        /\ str[1] = "#"
        /\ \A i \in 2..7 : str[i] \in HexDigits

----------------------------------------------------------------------------
(* The links collection *)

Ids(ls) == {ls[i].id : i \in DOMAIN ls}

\* links.findIndex(link => link.id === id); 0 stands for -1
findIndex(ls, id) ==
    IF \E i \in DOMAIN ls : ls[i].id = id
    THEN CHOOSE i \in DOMAIN ls : ls[i].id = id /\ \A j \in 1..(i - 1) : ls[j].id # id
    ELSE 0

\* maxOrder taken from the number of links instead of their order values
maxOrderFromLength(ls) == Len(ls) - 1

\* Math.max(...links.map(link => link.order)), -1 for the empty array
maxOrder(ls) ==
    IF Len(ls) > 0
    THEN CHOOSE m \in {ls[i].order : i \in DOMAIN ls} :
            \A i \in DOMAIN ls : ls[i].order <= m
    ELSE -1

\* links.sort((a, b) => a.order - b.order): the sort is stable
RECURSIVE sortByOrder(_)
sortByOrder(ls) ==
    IF ls = <<>> THEN <<>>
    ELSE LET last == ls[Len(ls)]
             front == sortByOrder(SubSeq(ls, 1, Len(ls) - 1))
             before == SelectSeq(front, LAMBDA l : l.order <= last.order)
             after == SelectSeq(front, LAMBDA l : l.order > last.order)
         IN  before \o <<last>> \o after

\* what a handler does: the response, the document it leaves on disk and
\* the storage and library calls it made
Outcome(status, code, doc, calls) ==
    [status |-> status, code |-> code, doc |-> doc, calls |-> calls]

None == Str(<<"none">>)
Image == Str(<<"image">>)
Icon == Str(<<"icon">>)
validVisualTypes == {None, Image, Icon}

\* the checks on imageUrl / iconId / iconUrl, the same in POST /links and
\* PUT /links/:id; "ok" when they pass, "throw" when imageUrl.trim() raises
visualCheck(visualType, imageUrl, iconId, iconUrl) ==
    IF visualType = Image
    THEN IF ~Truthy(imageUrl) THEN "MISSING_IMAGE_URL"
         ELSE IF TrimThrows(imageUrl) THEN "throw"
         ELSE IF Trim(imageUrl) = EmptyStr THEN "MISSING_IMAGE_URL"
         ELSE IF ~isValidURL(imageUrl) THEN "INVALID_IMAGE_URL"
         ELSE "ok"
    ELSE IF visualType = Icon
    THEN IF ~Truthy(iconId) \/ ~Truthy(iconUrl) THEN "MISSING_ICON_DATA"
         ELSE IF ~isValidURL(iconUrl) THEN "INVALID_ICON_URL"
         ELSE "ok"
    ELSE "ok"

\* the object literal newLink of POST /links
newLink(body, linkVisualType, uuid, ls) ==
    [id |-> uuid,
     label |-> Trim(body.label),
     url |-> Trim(body.url),
     visualType |-> linkVisualType,
     imageUrl |-> IF linkVisualType = Image THEN Trim(body.imageUrl) ELSE EmptyStr,
     iconId |-> IF linkVisualType = Icon THEN Trim(body.iconId) ELSE EmptyStr,
     iconUrl |-> IF linkVisualType = Icon THEN Trim(body.iconUrl) ELSE EmptyStr,
     order |-> maxOrder(ls) + 1,
     active |-> Bool(TRUE)]

\* router.post('/links'): fs is what the file system does to this request
createLink(ls, body, uuid, fs) ==
    LET linkVisualType == IF Truthy(body.visualType) THEN body.visualType ELSE None
        check == visualCheck(linkVisualType, body.imageUrl, body.iconId, body.iconUrl)
        throws == \/ TrimThrows(body.label)
                  \/ TrimThrows(body.url)
                  \/ linkVisualType = Icon /\ TrimThrows(body.iconId)
                  \/ linkVisualType = Icon /\ TrimThrows(body.iconUrl)
    IN  IF ~Truthy(body.label) \/ ~Truthy(body.url)
        THEN Outcome(400, "INVALID_INPUT", ls, {})
        ELSE IF ~isValidURL(body.url)
        THEN Outcome(400, "INVALID_URL", ls, {})
        ELSE IF linkVisualType \notin validVisualTypes
        THEN Outcome(400, "INVALID_VISUAL_TYPE", ls, {})
        ELSE IF check = "throw"
        THEN Outcome(500, "CREATE_ERROR", ls, {})
        ELSE IF check # "ok"
        THEN Outcome(400, check, ls, {})
        ELSE IF fs = "readError"
        THEN Outcome(500, "CREATE_ERROR", ls, {"readLinks"})
        ELSE IF throws
        THEN Outcome(500, "CREATE_ERROR", ls, {"readLinks"})
        ELSE IF fs = "writeError"
        THEN Outcome(500, "CREATE_ERROR", ls, {"readLinks", "writeLinks"})
        ELSE Outcome(201, "OK", Append(ls, newLink(body, linkVisualType, uuid, ls)),
                     {"readLinks", "writeLinks"})

\* reorderLinks dropping the links the payload does not name
reorderLinksDroppingUnnamed(ls, linkIds) ==
    SelectSeq(ls, LAMBDA link : \E k \in DOMAIN linkIds : linkIds[k] = link.id)

\* reorderLinks leaving the links the payload does not name as they are
reorderLinksNamedOnly(ls, linkIds) ==
    LET named(i) == \E k \in DOMAIN linkIds : linkIds[k] = ls[i].id
        lastIndex(i) == CHOOSE k \in DOMAIN linkIds :
                            /\ linkIds[k] = ls[i].id
                            /\ \A m \in DOMAIN linkIds : linkIds[m] = ls[i].id => m <= k
    IN  [i \in DOMAIN ls |->
            IF named(i) THEN [ls[i] EXCEPT !.order = lastIndex(i) - 1] ELSE ls[i]]

\* reorderLinks numbering the links the payload does not name from 0
reorderLinksRemainderFromZero(ls, linkIds) ==
    LET named(i) == \E k \in DOMAIN linkIds : linkIds[k] = ls[i].id
        lastIndex(i) == CHOOSE k \in DOMAIN linkIds :
                            /\ linkIds[k] = ls[i].id
                            /\ \A m \in DOMAIN linkIds : linkIds[m] = ls[i].id => m <= k
        unorderedIndex(i) == Cardinality({j \in 1..(i - 1) : ~named(j)})
    IN  [i \in DOMAIN ls |->
            [ls[i] EXCEPT !.order =
                IF named(i) THEN lastIndex(i) - 1 ELSE unorderedIndex(i)]]

\* reorderLinks moving the links the payload does not name behind the named
\* ones by adding linkIds.length to the order they have
reorderLinksShiftingRemainder(ls, linkIds) ==
    LET named(i) == \E k \in DOMAIN linkIds : linkIds[k] = ls[i].id
        lastIndex(i) == CHOOSE k \in DOMAIN linkIds :
                            /\ linkIds[k] = ls[i].id
                            /\ \A m \in DOMAIN linkIds : linkIds[m] = ls[i].id => m <= k
    IN  [i \in DOMAIN ls |->
            [ls[i] EXCEPT !.order =
                IF named(i) THEN lastIndex(i) - 1 ELSE Len(linkIds) + ls[i].order]]

\* the order every link gets from a reorder: a named link the index of its
\* last occurrence in linkIds, the others linkIds.length + their index among
\* the links the payload does not name, taken in array order
reorderLinks(ls, linkIds) ==
    LET named(i) == \E k \in DOMAIN linkIds : linkIds[k] = ls[i].id
        lastIndex(i) == CHOOSE k \in DOMAIN linkIds :
                            /\ linkIds[k] = ls[i].id
                            /\ \A m \in DOMAIN linkIds : linkIds[m] = ls[i].id => m <= k
        unorderedIndex(i) == Cardinality({j \in 1..(i - 1) : ~named(j)})
    IN  [i \in DOMAIN ls |->
            [ls[i] EXCEPT !.order =
                IF named(i) THEN lastIndex(i) - 1
                ELSE Len(linkIds) + unorderedIndex(i)]]

\* allIdsExist looking at the first identifier only
firstIdExists(ls, linkIds) == linkIds = <<>> \/ linkIds[1] \in Ids(ls)

\* the loop that validates that all provided IDs exist
allIdsExist(ls, linkIds) == \A k \in DOMAIN linkIds : linkIds[k] \in Ids(ls)

\* router.put('/links/reorder'); payload is [isArray, ids]
reorder(ls, payload, fs) ==
    IF ~payload.isArray
    THEN Outcome(400, "INVALID_INPUT", ls, {})
    ELSE IF fs = "readError"
    THEN Outcome(500, "REORDER_ERROR", ls, {"readLinks"})
    ELSE IF ~allIdsExist(ls, payload.ids)
    THEN Outcome(400, "INVALID_LINK_ID", ls, {"readLinks"})
    ELSE IF fs = "writeError"
    THEN Outcome(500, "REORDER_ERROR", ls, {"readLinks", "writeLinks"})
    ELSE Outcome(200, "OK", reorderLinks(ls, payload.ids), {"readLinks", "writeLinks"})

\* if (label !== undefined) links[linkIndex].label = label.trim()
withLabel(link, body) ==
    IF body.label # Undefined THEN [link EXCEPT !.label = Trim(body.label)] ELSE link

\* if (url !== undefined) links[linkIndex].url = url.trim()
withUrl(link, body) ==
    IF body.url # Undefined THEN [link EXCEPT !.url = Trim(body.url)] ELSE link

\* withVisual taking imageUrl from the body whenever it is supplied
withVisualAndImage(link, body) ==
    LET l == IF body.visualType # Undefined
             THEN [link EXCEPT !.visualType = body.visualType] ELSE link
    IN  IF body.imageUrl # Undefined THEN [l EXCEPT !.imageUrl = Trim(body.imageUrl)] ELSE l

\* if (visualType !== undefined) { ... }: the visual type and the fields
\* that go with it
withVisual(link, body) ==
    LET vt == body.visualType
    IN  IF vt = Undefined THEN link
        ELSE IF vt = None
        THEN [link EXCEPT !.visualType = vt, !.imageUrl = EmptyStr,
                          !.iconId = EmptyStr, !.iconUrl = EmptyStr]
        ELSE IF vt = Image
        THEN [link EXCEPT !.visualType = vt,
                          !.imageUrl = IF Truthy(body.imageUrl)
                                       THEN Trim(body.imageUrl) ELSE EmptyStr,
                          !.iconId = EmptyStr, !.iconUrl = EmptyStr]
        ELSE IF vt = Icon
        THEN [link EXCEPT !.visualType = vt, !.imageUrl = EmptyStr,
                          !.iconId = IF Truthy(body.iconId)
                                     THEN Trim(body.iconId) ELSE EmptyStr,
                          !.iconUrl = IF Truthy(body.iconUrl)
                                      THEN Trim(body.iconUrl) ELSE EmptyStr]
        ELSE [link EXCEPT !.visualType = vt]

\* if (active !== undefined) links[linkIndex].active = active
withActive(link, body) ==
    IF body.active # Undefined THEN [link EXCEPT !.active = body.active] ELSE link

\* updatedLink copying every property of the body, order included
updatedLinkWithOrder(link, body) ==
    LET l == withActive(withVisual(withUrl(withLabel(link, body), body), body), body)
    IN  IF body.order # Undefined THEN [l EXCEPT !.order = 7] ELSE l

\* the assignments of PUT /links/:id to links[linkIndex]
updatedLink(link, body) ==
    withActive(withVisual(withUrl(withLabel(link, body), body), body), body)

\* router.put('/links/:id')
updateLink(ls, id, body, fs) ==
    LET linkIndex == findIndex(ls, id)
        vt == body.visualType
        check == visualCheck(vt, body.imageUrl, body.iconId, body.iconUrl)
        throws == \/ body.label # Undefined /\ TrimThrows(body.label)
                  \/ body.url # Undefined /\ TrimThrows(body.url)
                  \/ vt = Image /\ Truthy(body.imageUrl) /\ TrimThrows(body.imageUrl)
                  \/ vt = Icon /\ Truthy(body.iconId) /\ TrimThrows(body.iconId)
                  \/ vt = Icon /\ Truthy(body.iconUrl) /\ TrimThrows(body.iconUrl)
    IN  IF fs = "readError"
        THEN Outcome(500, "UPDATE_ERROR", ls, {"readLinks"})
        ELSE IF linkIndex = 0
        THEN Outcome(404, "NOT_FOUND", ls, {"readLinks"})
        ELSE IF Truthy(body.url) /\ ~isValidURL(body.url)
        THEN Outcome(400, "INVALID_URL", ls, {"readLinks"})
        ELSE IF vt # Undefined /\ vt \notin validVisualTypes
        THEN Outcome(400, "INVALID_VISUAL_TYPE", ls, {"readLinks"})
        ELSE IF vt # Undefined /\ check = "throw"
        THEN Outcome(500, "UPDATE_ERROR", ls, {"readLinks"})
        ELSE IF vt # Undefined /\ check # "ok"
        THEN Outcome(400, check, ls, {"readLinks"})
        ELSE IF throws
        THEN Outcome(500, "UPDATE_ERROR", ls, {"readLinks"})
        ELSE IF fs = "writeError"
        THEN Outcome(500, "UPDATE_ERROR", ls, {"readLinks", "writeLinks"})
        ELSE Outcome(200, "OK", [ls EXCEPT ![linkIndex] = updatedLink(ls[linkIndex], body)],
                     {"readLinks", "writeLinks"})

\* splice removing the element before linkIndex (an index off by one)
spliceOffByOne(ls, linkIndex) ==
    IF linkIndex = 1 THEN SubSeq(ls, 1, Len(ls) - 1)
    ELSE SubSeq(ls, 1, linkIndex - 2) \o SubSeq(ls, linkIndex, Len(ls))

\* links.splice(linkIndex, 1)
splice(ls, linkIndex) ==
    SubSeq(ls, 1, linkIndex - 1) \o SubSeq(ls, linkIndex + 1, Len(ls))

\* router.delete('/links/:id')
deleteLink(ls, id, fs) ==
    LET linkIndex == findIndex(ls, id)
    IN  IF fs = "readError"
        THEN Outcome(500, "DELETE_ERROR", ls, {"readLinks"})
        ELSE IF linkIndex = 0
        THEN Outcome(404, "NOT_FOUND", ls, {"readLinks"})
        ELSE IF fs = "writeError"
        THEN Outcome(500, "DELETE_ERROR", ls, {"readLinks", "writeLinks"})
        ELSE Outcome(200, "OK", splice(ls, linkIndex), {"readLinks", "writeLinks"})

----------------------------------------------------------------------------
(* The login rate limiter and the sessions *)

MAX_ATTEMPTS == 5
LOCKOUT_DURATION == 15 * 60 * 1000

Addrs == {"ip1", "ip2"}
Sessions == {"s1", "s2"}

\* loginAttempts.delete(ip)
MapDelete(la, ip) == [a \in DOMAIN la \ {ip} |-> la[a]]

\* loginAttempts.set(ip, entry)
MapSet(la, ip, entry) == [a \in DOMAIN la \cup {ip} |-> IF a = ip THEN entry ELSE la[a]]

\* isRateLimited comparing the count with > in place of >=
isRateLimitedAfterMax(la, ip, t) ==
    /\ ip \in DOMAIN la
    /\ la[ip].count > MAX_ATTEMPTS
    /\ t - la[ip].firstAttempt < LOCKOUT_DURATION

\* the value isRateLimited(ip) returns at time t
isRateLimited(la, ip, t) ==
    /\ ip \in DOMAIN la
    /\ la[ip].count >= MAX_ATTEMPTS
    /\ t - la[ip].firstAttempt < LOCKOUT_DURATION

\* the map isRateLimited(ip) leaves: an entry that reached MAX_ATTEMPTS and
\* whose lockout is over is deleted
afterRateCheck(la, ip, t) ==
    IF /\ ip \in DOMAIN la
       /\ la[ip].count >= MAX_ATTEMPTS
       /\ ~(t - la[ip].firstAttempt < LOCKOUT_DURATION)
    THEN MapDelete(la, ip)
    ELSE la

\* recordLoginAttempt restarting the window at every attempt
recordLoginAttemptSliding(la, ip, t) ==
    IF ip \notin DOMAIN la
    THEN MapSet(la, ip, [count |-> 1, firstAttempt |-> t])
    ELSE [la EXCEPT ![ip].count = @ + 1, ![ip].firstAttempt = t]

\* recordLoginAttempt(ip) at time t
recordLoginAttempt(la, ip, t) ==
    IF ip \notin DOMAIN la
    THEN MapSet(la, ip, [count |-> 1, firstAttempt |-> t])
    ELSE [la EXCEPT ![ip].count = @ + 1]

\* resetLoginAttempts clearing the whole map
resetLoginAttemptsOfAll(la, ip) == [a \in {} |-> la[a]]

resetLoginAttempts(la, ip) == MapDelete(la, ip)

\* bcrypt.hash and bcrypt.compare
Hash(password) == Str(<<"$2b$10$">> \o password.s)
bcryptCompare(password, passwordHash) == passwordHash = Hash(password)

\* usernameMatches comparing the names in lower case
usernameMatchesIgnoringCase(username, stored) ==
    LET toLowerCase(v) == IF v = Str(<<"Admin">>) THEN Str(<<"admin">>) ELSE v
    IN  toLowerCase(username) = toLowerCase(stored)

\* username !== authData.username is false
usernameMatches(username, stored) == username = stored

NoSession == [isAuthenticated |-> FALSE, username |-> Undefined]

LoginOutcome(status, code, la, session, calls) ==
    [status |-> status, code |-> code, la |-> la, session |-> session, calls |-> calls]

\* router.post('/login'): session is req.session, authData the content of
\* auth.json, t the time of the request
login(la, ip, body, session, authData, t, fs) ==
    LET la1 == afterRateCheck(la, ip, t)
        success == [session EXCEPT !.isAuthenticated = TRUE, !.username = body.username]
    IN  IF isRateLimited(la, ip, t)
        THEN LoginOutcome(429, "RATE_LIMITED", la1, session, {})
        ELSE IF ~Truthy(body.username) \/ ~Truthy(body.password)
        THEN LoginOutcome(400, "INVALID_INPUT", recordLoginAttempt(la1, ip, t), session, {})
        ELSE IF fs = "readError"
        THEN LoginOutcome(500, "SERVER_ERROR", la1, session, {"readAuth"})
        ELSE IF ~Truthy(authData.username) \/ ~Truthy(authData.passwordHash)
        THEN LoginOutcome(500, "AUTH_NOT_CONFIGURED", la1, session, {"readAuth"})
        ELSE IF ~usernameMatches(body.username, authData.username)
        THEN LoginOutcome(401, "INVALID_CREDENTIALS", recordLoginAttempt(la1, ip, t),
                          session, {"readAuth"})
        ELSE IF ~IsString(body.password)
        THEN LoginOutcome(500, "SERVER_ERROR", la1, session, {"readAuth", "bcrypt.compare"})
        ELSE IF ~bcryptCompare(body.password, authData.passwordHash)
        THEN LoginOutcome(401, "INVALID_CREDENTIALS", recordLoginAttempt(la1, ip, t),
                          session, {"readAuth", "bcrypt.compare"})
        ELSE LoginOutcome(200, "OK", resetLoginAttempts(la1, ip), success,
                          {"readAuth", "bcrypt.compare"})

\* requireAuth refusing every request while an address is locked out
requireAuthUnlessLocked(session) ==
    /\ session.isAuthenticated
    /\ \A a \in DOMAIN loginAttempts : loginAttempts[a].count < MAX_ATTEMPTS

\* requireAuth asking only whether the request has a session
requireAuthAnySession(session) == session # Undefined

\* the middleware requireAuth
requireAuth(session) == session.isAuthenticated

Unauthorized(doc) == Outcome(401, "UNAUTHORIZED", doc, {})

----------------------------------------------------------------------------
(* Theme, profile, configuration and icon search *)

\* one colour field of PUT /theme: "skip" when the field is absent
colorStep(value) ==
    IF value = Undefined THEN "skip"
    ELSE IF ~isValidHexColor(value) THEN "INVALID_COLOR"
    ELSE "set"

SetIf(doc, field, step, value) == IF step = "set" THEN [doc EXCEPT ![field] = value] ELSE doc

\* router.put('/theme'): the fields are examined in the order of the source,
\* the first invalid one ends the request
updateTheme(th, body, fs) ==
    LET c1 == colorStep(body.backgroundColor)
        t1 == SetIf(th, "backgroundColor", c1, body.backgroundColor)
        img == body.backgroundImageUrl
        c2 == IF img = Undefined THEN "skip"
              ELSE IF TrimThrows(img) THEN "throw"
              ELSE IF Trim(img) # EmptyStr /\ ~isValidURL(img) THEN "INVALID_URL"
              ELSE "set"
        t2 == IF c2 = "set" THEN [t1 EXCEPT !.backgroundImageUrl = Trim(img)] ELSE t1
        c3 == colorStep(body.textColor)
        t3 == SetIf(t2, "textColor", c3, body.textColor)
        c4 == colorStep(body.buttonColor)
        t4 == SetIf(t3, "buttonColor", c4, body.buttonColor)
        c5 == colorStep(body.buttonTextColor)
        t5 == SetIf(t4, "buttonTextColor", c5, body.buttonTextColor)
        steps == <<c1, c2, c3, c4, c5>>
        bad == {i \in 1..5 : steps[i] \notin {"skip", "set"}}
        first == CHOOSE i \in bad : \A j \in bad : i <= j
    IN  IF fs = "readError"
        THEN Outcome(500, "UPDATE_ERROR", th, {"readTheme"})
        ELSE IF bad # {}
        THEN IF steps[first] = "throw"
             THEN Outcome(500, "UPDATE_ERROR", th, {"readTheme"})
             ELSE Outcome(400, steps[first], th, {"readTheme"})
        ELSE IF fs = "writeError"
        THEN Outcome(500, "UPDATE_ERROR", th, {"readTheme", "writeTheme"})
        ELSE Outcome(200, "OK", t5, {"readTheme", "writeTheme"})

\* the number of characters of each piece of a string
PieceLen ==
    [x \in {SP, "x", "x500", "http://a.example", "https://b.example",
            "https://b.example/p.png", "ftp://c.example"} |->
        CASE x = SP -> 1
          [] x = "x" -> 1
          [] x = "x500" -> 500
          [] x = "http://a.example" -> 16
          [] x = "https://b.example" -> 17
          [] x = "https://b.example/p.png" -> 23
          [] OTHER -> 15]

RECURSIVE SeqLength(_)
SeqLength(seq) == IF seq = <<>> THEN 0 ELSE PieceLen[Head(seq)] + SeqLength(Tail(seq))

\* String.prototype.length
Length(v) == SeqLength(v.s)

BIO_MAX == 500

\* the URLs that contain an image extension or an image hosting domain
ImageLike == {"https://b.example/p.png"}

isValidImageURL(url) ==
    IF ~Truthy(url) \/ Trim(url) = EmptyStr THEN TRUE
    ELSE IF ~isValidURL(url) THEN FALSE
    ELSE Trim(url).s[1] \in ImageLike

\* router.put('/profile')
updateProfile(pr, body, fs) ==
    LET c1 == IF body.photoUrl = Undefined THEN "skip"
              ELSE IF TrimThrows(body.photoUrl) THEN "throw"
              ELSE IF ~isValidImageURL(Trim(body.photoUrl)) THEN "INVALID_IMAGE_URL"
              ELSE "set"
        p1 == IF c1 = "set" THEN [pr EXCEPT !.photoUrl = Trim(body.photoUrl)] ELSE pr
        c2 == IF body.bio = Undefined THEN "skip"
              ELSE IF TrimThrows(body.bio) THEN "throw"
              ELSE IF Length(Trim(body.bio)) > BIO_MAX THEN "BIO_TOO_LONG"
              ELSE "set"
        p2 == IF c2 = "set" THEN [p1 EXCEPT !.bio = Trim(body.bio)] ELSE p1
    IN  IF fs = "readError"
        THEN Outcome(500, "UPDATE_ERROR", pr, {"readProfile"})
        ELSE IF c1 \notin {"skip", "set"}
        THEN Outcome(IF c1 = "throw" THEN 500 ELSE 400,
                     IF c1 = "throw" THEN "UPDATE_ERROR" ELSE c1, pr, {"readProfile"})
        ELSE IF c2 \notin {"skip", "set"}
        THEN Outcome(IF c2 = "throw" THEN 500 ELSE 400,
                     IF c2 = "throw" THEN "UPDATE_ERROR" ELSE c2, pr, {"readProfile"})
        ELSE IF fs = "writeError"
        THEN Outcome(500, "UPDATE_ERROR", pr, {"readProfile", "writeProfile"})
        ELSE Outcome(200, "OK", p2, {"readProfile", "writeProfile"})

\* nounProjectConfigured looking at the API key only
nounProjectConfiguredKeyOnly(cf) == Truthy(cf.nounProjectApiKey)

\* !!(config.nounProjectApiKey && config.nounProjectApiSecret)
nounProjectConfigured(cf) == Truthy(cf.nounProjectApiKey) /\ Truthy(cf.nounProjectApiSecret)

\* one credential of PUT /config
credentialStep(value, code) ==
    IF value = Undefined THEN "skip"
    ELSE IF TrimThrows(value) THEN "throw"
    ELSE IF Trim(value) = EmptyStr THEN code
    ELSE "set"

\* router.put('/config') writing the key before the secret is examined
updateConfigWritingEarly(cf, body, fs) ==
    LET c1 == credentialStep(body.nounProjectApiKey, "INVALID_API_KEY")
        f1 == IF c1 = "set" THEN [cf EXCEPT !.nounProjectApiKey = Trim(body.nounProjectApiKey)]
              ELSE cf
        c2 == credentialStep(body.nounProjectApiSecret, "INVALID_API_SECRET")
        f2 == IF c2 = "set"
              THEN [f1 EXCEPT !.nounProjectApiSecret = Trim(body.nounProjectApiSecret)]
              ELSE f1
    IN  IF fs = "readError"
        THEN Outcome(500, "UPDATE_ERROR", cf, {"readConfig"})
        ELSE IF c1 \notin {"skip", "set"}
        THEN Outcome(IF c1 = "throw" THEN 500 ELSE 400,
                     IF c1 = "throw" THEN "UPDATE_ERROR" ELSE c1, cf, {"readConfig"})
        ELSE IF c2 \notin {"skip", "set"}
        THEN Outcome(IF c2 = "throw" THEN 500 ELSE 400,
                     IF c2 = "throw" THEN "UPDATE_ERROR" ELSE c2, f1,
                     {"readConfig", "writeConfig"})
        ELSE IF fs = "writeError"
        THEN Outcome(500, "UPDATE_ERROR", cf, {"readConfig", "writeConfig"})
        ELSE Outcome(200, "OK", f2, {"readConfig", "writeConfig"})

\* router.put('/config')
updateConfig(cf, body, fs) ==
    LET c1 == credentialStep(body.nounProjectApiKey, "INVALID_API_KEY")
        f1 == IF c1 = "set" THEN [cf EXCEPT !.nounProjectApiKey = Trim(body.nounProjectApiKey)]
              ELSE cf
        c2 == credentialStep(body.nounProjectApiSecret, "INVALID_API_SECRET")
        f2 == IF c2 = "set"
              THEN [f1 EXCEPT !.nounProjectApiSecret = Trim(body.nounProjectApiSecret)]
              ELSE f1
    IN  IF fs = "readError"
        THEN Outcome(500, "UPDATE_ERROR", cf, {"readConfig"})
        ELSE IF c1 \notin {"skip", "set"}
        THEN Outcome(IF c1 = "throw" THEN 500 ELSE 400,
                     IF c1 = "throw" THEN "UPDATE_ERROR" ELSE c1, cf, {"readConfig"})
        ELSE IF c2 \notin {"skip", "set"}
        THEN Outcome(IF c2 = "throw" THEN 500 ELSE 400,
                     IF c2 = "throw" THEN "UPDATE_ERROR" ELSE c2, cf, {"readConfig"})
        ELSE IF fs = "writeError"
        THEN Outcome(500, "UPDATE_ERROR", cf, {"readConfig", "writeConfig"})
        ELSE Outcome(200, "OK", f2, {"readConfig", "writeConfig"})

\* searchIcons asking for the API key only
searchIconsKeyOnly(cf, query, fs, upstream) ==
    IF ~Truthy(query)
    THEN Outcome(400, "MISSING_QUERY", cf, {})
    ELSE IF TrimThrows(query)
    THEN Outcome(500, "SEARCH_ERROR", cf, {})
    ELSE IF Trim(query) = EmptyStr
    THEN Outcome(400, "MISSING_QUERY", cf, {})
    ELSE IF fs = "readError"
    THEN Outcome(500, "SEARCH_ERROR", cf, {"readConfig"})
    ELSE IF ~Truthy(cf.nounProjectApiKey)
    THEN Outcome(503, "API_NOT_CONFIGURED", cf, {"readConfig"})
    ELSE IF upstream = "networkError"
    THEN Outcome(500, "SEARCH_ERROR", cf, {"readConfig", "fetch"})
    ELSE IF upstream = "notOk"
    THEN Outcome(403, "API_ERROR", cf, {"readConfig", "fetch"})
    ELSE Outcome(200, "OK", cf, {"readConfig", "fetch"})

\* router.get('/icons/search'): upstream is what the icon service answers
searchIcons(cf, query, fs, upstream) ==
    IF ~Truthy(query)
    THEN Outcome(400, "MISSING_QUERY", cf, {})
    ELSE IF TrimThrows(query)
    THEN Outcome(500, "SEARCH_ERROR", cf, {})
    ELSE IF Trim(query) = EmptyStr
    THEN Outcome(400, "MISSING_QUERY", cf, {})
    ELSE IF fs = "readError"
    THEN Outcome(500, "SEARCH_ERROR", cf, {"readConfig"})
    ELSE IF ~Truthy(cf.nounProjectApiKey) \/ ~Truthy(cf.nounProjectApiSecret)
    THEN Outcome(503, "API_NOT_CONFIGURED", cf, {"readConfig"})
    ELSE IF upstream = "networkError"
    THEN Outcome(500, "SEARCH_ERROR", cf, {"readConfig", "fetch"})
    ELSE IF upstream = "notOk"
    THEN Outcome(403, "API_ERROR", cf, {"readConfig", "fetch"})
    ELSE Outcome(200, "OK", cf, {"readConfig", "fetch"})

----------------------------------------------------------------------------
(* Requests and responses *)

NoBody == [none |-> Undefined]
NoList == [isArray |-> FALSE, ids |-> <<>>]

Request(op, s) ==
    [op |-> op, sid |-> s, ip |-> "", id |-> 0, body |-> NoBody, linkIds |-> NoList,
     fs |-> "ok", upstream |-> "ok"]

\* the body of a response that carries no document
NoData == <<>>

Response(out) ==
    [status |-> out.status, code |-> out.code, calls |-> out.calls, data |-> NoData]

FsResults == {"ok", "readError", "writeError"}

\* the handlers that can be suspended at the same time, and a free one
Slots == {"h1", "h2"}
Idle == [req |-> Request("idle", "s1"), out |-> Outcome(0, "", <<>>, {}), snap |-> <<>>]

\* the request bodies of POST /links and PUT /links/:id
LinkBody(label, url, visualType, imageUrl, iconId, iconUrl, active) ==
    [label |-> label, url |-> url, visualType |-> visualType, imageUrl |-> imageUrl,
     iconId |-> iconId, iconUrl |-> iconUrl, active |-> active,
     id |-> Undefined, order |-> Undefined]

----------------------------------------------------------------------------
(* public/js/admin.js: the icon search of the admin page.  page.value is   *)
(* the content of the search field, page.results what the results          *)
(* container shows, page.timers the timers setTimeout has set and that     *)
(* neither ran nor were cleared, page.fetches the number of searches sent  *)
(* and not answered; page.event and page.lastInput record the event        *)
(* handled last and the input event handled last.                          *)

ICON_SEARCH_DEBOUNCE_MS == 300

\* the clock of the browser advances by a third of the delay
ClockStep == ICON_SEARCH_DEBOUNCE_MS \div 3

NoTimer == 0

PageLoaded ==
    [value |-> EmptyStr, results |-> "", iconSearchTimeout |-> NoTimer, timers |-> {},
     nextTimer |-> 1, clock |-> 0, fetches |-> 0, isApiConfigured |-> TRUE,
     event |-> "load", lastInput |-> [t |-> 0, query |-> EmptyStr]]

\* clearTimeout(id): a timer that ran or was cleared before is not there
clearTimeout(timers, id) == {tm \in timers : tm.id # id}

\* handleIconSearchInput skipping clearTimeout
handleIconSearchInputKeepingTimer(pg) ==
    LET query == Trim(pg.value)
    IN  IF ~Truthy(query)
        THEN [pg EXCEPT !.results = ""]
        ELSE [pg EXCEPT !.timers = pg.timers \cup
                                    {[id |-> pg.nextTimer,
                                      due |-> pg.clock + ICON_SEARCH_DEBOUNCE_MS]},
                        !.iconSearchTimeout = pg.nextTimer,
                        !.nextTimer = pg.nextTimer + 1]

\* handleIconSearchInput: the handler of the input event of the search field
handleIconSearchInput(pg) ==
    LET cleared == IF pg.iconSearchTimeout # NoTimer
                   THEN clearTimeout(pg.timers, pg.iconSearchTimeout)
                   ELSE pg.timers
        query == Trim(pg.value)
    IN  IF ~Truthy(query)
        THEN [pg EXCEPT !.timers = cleared, !.results = ""]
        ELSE [pg EXCEPT !.timers = cleared \cup
                                    {[id |-> pg.nextTimer,
                                      due |-> pg.clock + ICON_SEARCH_DEBOUNCE_MS]},
                        !.iconSearchTimeout = pg.nextTimer,
                        !.nextTimer = pg.nextTimer + 1]

\* searchIcons of the page, up to its await of the fetch
pageSearchIcons(pg) ==
    IF ~Truthy(Trim(pg.value)) THEN pg
    ELSE IF ~pg.isApiConfigured THEN [pg EXCEPT !.results = "not configured"]
    ELSE [pg EXCEPT !.results = "loading", !.fetches = pg.fetches + 1]

\* searchIcons of the page after the fetch: displayIconResults or the catch
\* block fill the results container
afterFetch(pg, answer) ==
    [pg EXCEPT !.fetches = pg.fetches - 1,
               !.results = CASE answer = "icons" -> "icons"
                             [] answer = "no icons" -> "empty"
                             [] OTHER -> "error"]

\* clearIconSelection: the Clear button and the reset of the link form
clearIconSelection(pg) == [pg EXCEPT !.value = EmptyStr, !.results = ""]

----------------------------------------------------------------------------
(* The state after setup.js and server start *)

AuthConfigured == [username |-> Str(<<"admin">>), passwordHash |-> Hash(Str(<<"admin123">>))]
AuthEmpty == [username |-> EmptyStr, passwordHash |-> EmptyStr]

Color(c1, c2, c3, c4, c5, c6) == Str(<<"#", c1, c2, c3, c4, c5, c6>>)

DefaultTheme ==
    [backgroundColor |-> Color("f", "0", "f", "0", "f", "0"),
     backgroundImageUrl |-> EmptyStr,
     textColor |-> Color("3", "3", "3", "3", "3", "3"),
     buttonColor |-> Color("4", "a", "9", "0", "e", "2"),
     buttonTextColor |-> Color("f", "f", "f", "f", "f", "f")]

DefaultProfile == [photoUrl |-> EmptyStr, bio |-> Str(<<"x">>)]

ConfigEmpty == [nounProjectApiKey |-> EmptyStr, nounProjectApiSecret |-> EmptyStr]

Init ==
    /\ links = <<>>
    /\ theme = DefaultTheme
    /\ profile = DefaultProfile
    /\ config = ConfigEmpty
    /\ auth = AuthConfigured
    /\ loginAttempts = <<>>
    /\ sess = [s \in Sessions |-> NoSession]
    /\ now = 0
    /\ nextId = 1
    /\ req = Request("start", "s1")
    /\ resp = [status |-> 0, code |-> "", calls |-> {}, data |-> NoData]
    /\ failedLogins = [a \in Addrs |-> <<>>]
    /\ inflight = [k \in Slots |-> Idle]
    /\ page = PageLoaded

\* the state after construction with other contents of auth.json and
\* config.json than the ones above
StartWith(authData, cf) ==
    /\ links = <<>>
    /\ theme = DefaultTheme
    /\ profile = DefaultProfile
    /\ config = cf
    /\ auth = authData
    /\ loginAttempts = <<>>
    /\ sess = [s \in Sessions |-> NoSession]
    /\ now = 0
    /\ nextId = 1
    /\ req = Request("start", "s1")
    /\ resp = [status |-> 0, code |-> "", calls |-> {}, data |-> NoData]
    /\ failedLogins = [a \in Addrs |-> <<>>]
    /\ inflight = [k \in Slots |-> Idle]
    /\ page = PageLoaded

----------------------------------------------------------------------------
(* The request handlers *)

\* the history of failed logins after a login POST answered with status:
\* a 400 or 401 is appended (the latest MAX_ATTEMPTS are kept) together with
\* whether the address had no rate-limit entry when the request arrived, a
\* 200 ends the run of failures, any other answer leaves the history alone
noteLogin(history, status, hadEntry, t) ==
    IF status \in {400, 401}
    THEN LET h == Append(history, [t |-> t, fresh |-> ~hadEntry])
         IN  IF Len(h) > MAX_ATTEMPTS THEN Tail(h) ELSE h
    ELSE IF status = 200 THEN <<>>
    ELSE history

\* POST /api/login, but for the history
LoginStep(s, ip, body, fs) ==
    LET out == login(loginAttempts, ip, body, sess[s], auth, now, fs)
    IN  /\ loginAttempts' = out.la
        /\ sess' = [sess EXCEPT ![s] = out.session]
        /\ req' = [Request("login", s) EXCEPT !.ip = ip, !.body = body, !.fs = fs]
        /\ resp' = Response(out)
        /\ UNCHANGED <<links, theme, profile, config, auth, now, nextId, inflight, page>>

\* POST /api/login
Login(s, ip, body, fs) ==
    /\ LoginStep(s, ip, body, fs)
    /\ UNCHANGED failedLogins

\* POST /api/login with the history of the address kept
ObservedLogin(s, ip, body, fs) ==
    /\ LoginStep(s, ip, body, fs)
    /\ failedLogins' = [failedLogins EXCEPT
            ![ip] = noteLogin(@, resp'.status, ip \in DOMAIN loginAttempts, now)]

\* GET /api/auth/status
AuthStatus(s) ==
    /\ req' = Request("authStatus", s)
    /\ resp' = [status |-> 200,
                code |-> IF sess[s].isAuthenticated THEN "isAuthenticated: true"
                         ELSE "isAuthenticated: false",
                calls |-> {}, data |-> NoData]
    /\ UNCHANGED <<links, theme, profile, config, auth, loginAttempts, sess, now, nextId,
                   failedLogins, inflight, page>>

\* Logout answering without removing the session from the store
LogoutKeepsSession(s, storeOk) ==
    /\ req' = [Request("logout", s) EXCEPT !.fs = IF storeOk THEN "ok" ELSE "writeError"]
    /\ resp' = IF storeOk
               THEN [status |-> 200, code |-> "OK", calls |-> {}, data |-> NoData]
               ELSE [status |-> 500, code |-> "SERVER_ERROR", calls |-> {}, data |-> NoData]
    /\ UNCHANGED <<links, theme, profile, config, auth, loginAttempts, sess, now, nextId,
                   failedLogins, inflight, page>>

\* POST /api/logout: session.destroy removes the session from the store
Logout(s, storeOk) ==
    /\ sess' = IF storeOk THEN [sess EXCEPT ![s] = NoSession] ELSE sess
    /\ req' = [Request("logout", s) EXCEPT !.fs = IF storeOk THEN "ok" ELSE "writeError"]
    /\ resp' = IF storeOk
               THEN [status |-> 200, code |-> "OK", calls |-> {"session.destroy"},
                     data |-> NoData]
               ELSE [status |-> 500, code |-> "SERVER_ERROR", calls |-> {"session.destroy"},
                     data |-> NoData]
    /\ UNCHANGED <<links, theme, profile, config, auth, loginAttempts, now, nextId, failedLogins,
                   inflight, page>>

\* the clock advances by TickMs milliseconds
TickMs == LOCKOUT_DURATION \div 3

Tick ==
    /\ now + TickMs <= MaxTicks * TickMs
    /\ now' = now + TickMs
    /\ UNCHANGED <<links, theme, profile, config, auth, loginAttempts, sess, nextId, req, resp,
                   failedLogins, inflight, page>>

\* POST /api/admin/links; at most cap identifiers are handed out
PostLinks(s, body, fs, cap) ==
    /\ nextId <= cap
    /\ LET out == IF requireAuth(sess[s]) THEN createLink(links, body, nextId, fs)
                  ELSE Unauthorized(links)
       IN  /\ links' = out.doc
           /\ nextId' = IF out.status = 201 THEN nextId + 1 ELSE nextId
           /\ resp' = Response(out)
    /\ req' = [Request("createLink", s) EXCEPT !.body = body, !.fs = fs]
    /\ UNCHANGED <<theme, profile, config, auth, loginAttempts, sess, now, failedLogins,
                   inflight, page>>

\* PUT /api/admin/links/reorder
PutReorder(s, payload, fs) ==
    /\ LET out == IF requireAuth(sess[s]) THEN reorder(links, payload, fs)
                  ELSE Unauthorized(links)
       IN  /\ links' = out.doc
           /\ resp' = Response(out)
    /\ req' = [Request("reorder", s) EXCEPT !.linkIds = payload, !.fs = fs]
    /\ UNCHANGED <<theme, profile, config, auth, loginAttempts, sess, now, nextId, failedLogins,
                   inflight, page>>

\* PUT /api/admin/links/:id
PutLink(s, id, body, fs) ==
    /\ LET out == IF requireAuth(sess[s]) THEN updateLink(links, id, body, fs)
                  ELSE Unauthorized(links)
       IN  /\ links' = out.doc
           /\ resp' = Response(out)
    /\ req' = [Request("updateLink", s) EXCEPT !.id = id, !.body = body, !.fs = fs]
    /\ UNCHANGED <<theme, profile, config, auth, loginAttempts, sess, now, nextId, failedLogins,
                   inflight, page>>

\* DELETE /api/admin/links/:id
DeleteLink(s, id, fs) ==
    /\ LET out == IF requireAuth(sess[s]) THEN deleteLink(links, id, fs)
                  ELSE Unauthorized(links)
       IN  /\ links' = out.doc
           /\ resp' = Response(out)
    /\ req' = [Request("deleteLink", s) EXCEPT !.id = id, !.fs = fs]
    /\ UNCHANGED <<theme, profile, config, auth, loginAttempts, sess, now, nextId, failedLogins,
                   inflight, page>>

\* links.filter(link => link.active)
activeLinks(ls) == SelectSeq(ls, LAMBDA link : Truthy(link.active))

\* GET /api/links: the active links sorted by order
GetLinks(fs) ==
    /\ req' = [Request("getLinks", "s1") EXCEPT !.fs = fs]
    /\ resp' = IF fs = "readError"
               THEN [status |-> 500, code |-> "SERVER_ERROR", calls |-> {"readLinks"},
                     data |-> NoData]
               ELSE [status |-> 200, code |-> "OK", calls |-> {"readLinks"},
                     data |-> sortByOrder(activeLinks(links))]
    /\ UNCHANGED <<links, theme, profile, config, auth, loginAttempts, sess, now, nextId,
                   failedLogins, inflight, page>>

\* GET /api/admin/links: every stored link, in array order
GetAdminLinks(s) ==
    /\ req' = Request("getAdminLinks", s)
    /\ resp' = IF requireAuth(sess[s])
               THEN [status |-> 200, code |-> "OK", calls |-> {"readLinks"}, data |-> links]
               ELSE Response(Unauthorized(links))
    /\ UNCHANGED <<links, theme, profile, config, auth, loginAttempts, sess, now, nextId,
                   failedLogins, inflight, page>>

\* PUT /api/admin/theme
PutTheme(s, body, fs) ==
    /\ LET out == IF requireAuth(sess[s]) THEN updateTheme(theme, body, fs)
                  ELSE Unauthorized(theme)
       IN  /\ theme' = out.doc
           /\ resp' = Response(out)
    /\ req' = [Request("updateTheme", s) EXCEPT !.body = body, !.fs = fs]
    /\ UNCHANGED <<links, profile, config, auth, loginAttempts, sess, now, nextId, failedLogins,
                   inflight, page>>

\* PUT /api/admin/profile
PutProfile(s, body, fs) ==
    /\ LET out == IF requireAuth(sess[s]) THEN updateProfile(profile, body, fs)
                  ELSE Unauthorized(profile)
       IN  /\ profile' = out.doc
           /\ resp' = Response(out)
    /\ req' = [Request("updateProfile", s) EXCEPT !.body = body, !.fs = fs]
    /\ UNCHANGED <<links, theme, config, auth, loginAttempts, sess, now, nextId, failedLogins,
                   inflight, page>>

\* GET /api/admin/config: the answer tells whether both credentials are set
GetConfig(s, fs) ==
    /\ req' = [Request("getConfig", s) EXCEPT !.fs = fs]
    /\ resp' = IF ~requireAuth(sess[s]) THEN Response(Unauthorized(config))
               ELSE IF fs = "readError"
               THEN [status |-> 500, code |-> "FETCH_ERROR", calls |-> {"readConfig"},
                     data |-> NoData]
               ELSE [status |-> 200,
                     code |-> IF nounProjectConfigured(config)
                              THEN "nounProjectConfigured: true"
                              ELSE "nounProjectConfigured: false",
                     calls |-> {"readConfig"},
                     data |-> [nounProjectConfigured |-> nounProjectConfigured(config)]]
    /\ UNCHANGED <<links, theme, profile, config, auth, loginAttempts, sess, now, nextId,
                   failedLogins, inflight, page>>

\* PUT /api/admin/config
PutConfig(s, body, fs) ==
    /\ LET out == IF requireAuth(sess[s]) THEN updateConfig(config, body, fs)
                  ELSE Unauthorized(config)
       IN  /\ config' = out.doc
           /\ resp' = IF out.status = 200
                      THEN [Response(out) EXCEPT !.data =
                                [success |-> TRUE,
                                 message |-> "Configuration updated successfully",
                                 nounProjectConfigured |-> nounProjectConfigured(out.doc)]]
                      ELSE Response(out)
    /\ req' = [Request("updateConfig", s) EXCEPT !.body = body, !.fs = fs]
    /\ UNCHANGED <<links, theme, profile, auth, loginAttempts, sess, now, nextId, failedLogins,
                   inflight, page>>

\* GET /api/admin/icons/search?query=...
SearchIcons(s, query, fs, upstream) ==
    /\ LET out == IF requireAuth(sess[s]) THEN searchIcons(config, query, fs, upstream)
                  ELSE Unauthorized(config)
       IN  resp' = Response(out)
    /\ req' = [Request("searchIcons", s) EXCEPT !.body = [query |-> query], !.fs = fs,
                                                !.upstream = upstream]
    /\ UNCHANGED <<links, theme, profile, config, auth, loginAttempts, sess, now, nextId,
                   failedLogins, inflight, page>>

\* A handler of a links route is suspended at its awaits.  It holds the
\* array readLinks gave it; what it writes is computed from that array with
\* no await in between, so the handler is suspended once, between its read
\* of links.json and the moment its writeJSONFile replaces the file.  A
\* handler that answers without calling writeLinks answers at once.
Begin(k, r, out) ==
    /\ inflight[k] = Idle
    /\ IF "writeLinks" \in out.calls
       THEN /\ inflight' = [inflight EXCEPT ![k] = [req |-> r, out |-> out, snap |-> links]]
            /\ UNCHANGED <<req, resp>>
       ELSE /\ req' = r
            /\ resp' = Response(out)
            /\ UNCHANGED inflight
    /\ UNCHANGED <<links, theme, profile, config, auth, loginAttempts, sess, now, failedLogins,
                   page>>

\* POST /api/admin/links up to await writeLinks(links)
BeginPostLinks(k, s, body, cap) ==
    /\ nextId <= cap
    /\ LET out == IF requireAuth(sess[s]) THEN createLink(links, body, nextId, "ok")
                  ELSE Unauthorized(links)
       IN  /\ Begin(k, [Request("createLink", s) EXCEPT !.body = body], out)
           /\ nextId' = IF out.status = 201 THEN nextId + 1 ELSE nextId

\* PUT /api/admin/links/reorder up to await writeLinks(links)
BeginPutReorder(k, s, payload) ==
    /\ LET out == IF requireAuth(sess[s]) THEN reorder(links, payload, "ok")
                  ELSE Unauthorized(links)
       IN  Begin(k, [Request("reorder", s) EXCEPT !.linkIds = payload], out)
    /\ UNCHANGED nextId

\* PUT /api/admin/links/:id up to await writeLinks(links)
BeginPutLink(k, s, id, body) ==
    /\ LET out == IF requireAuth(sess[s]) THEN updateLink(links, id, body, "ok")
                  ELSE Unauthorized(links)
       IN  Begin(k, [Request("updateLink", s) EXCEPT !.id = id, !.body = body], out)
    /\ UNCHANGED nextId

\* DELETE /api/admin/links/:id up to await writeLinks(links)
BeginDeleteLink(k, s, id) ==
    /\ LET out == IF requireAuth(sess[s]) THEN deleteLink(links, id, "ok")
                  ELSE Unauthorized(links)
       IN  Begin(k, [Request("deleteLink", s) EXCEPT !.id = id], out)
    /\ UNCHANGED nextId

\* fs.writeFile of a suspended handler replaces links.json, and the handler
\* answers
WriteLands(k) ==
    /\ inflight[k] # Idle
    /\ links' = inflight[k].out.doc
    /\ req' = inflight[k].req
    /\ resp' = Response(inflight[k].out)
    /\ inflight' = [inflight EXCEPT ![k] = Idle]
    /\ UNCHANGED <<theme, profile, config, auth, loginAttempts, sess, now, nextId, failedLogins,
                   page>>

----------------------------------------------------------------------------
(* POST /api/login as the steps between its awaits.  The handler checks    *)
(* the rate limit and the fields of the body, is suspended at              *)
(* await readAuth(), compares the username, is suspended at                *)
(* await bcrypt.compare(...), and records the attempt or resets the entry  *)
(* with the map as it is by then.                                          *)

Suspended(r, at) == [req |-> r, out |-> Outcome(0, at, <<>>, {}), snap |-> <<>>]

LoginAnswers(r, status, code, calls) ==
    /\ req' = r
    /\ resp' = [status |-> status, code |-> code, calls |-> calls, data |-> NoData]

\* up to await readAuth()
LoginBegins(k, s, ip, body) ==
    LET r == [Request("login", s) EXCEPT !.ip = ip, !.body = body]
        la1 == afterRateCheck(loginAttempts, ip, now)
    IN  /\ inflight[k] = Idle
        /\ IF isRateLimited(loginAttempts, ip, now)
           THEN /\ LoginAnswers(r, 429, "RATE_LIMITED", {})
                /\ loginAttempts' = la1
                /\ UNCHANGED inflight
           ELSE IF ~Truthy(body.username) \/ ~Truthy(body.password)
           THEN /\ LoginAnswers(r, 400, "INVALID_INPUT", {})
                /\ loginAttempts' = recordLoginAttempt(la1, ip, now)
                /\ UNCHANGED inflight
           ELSE /\ inflight' = [inflight EXCEPT ![k] = Suspended(r, "readAuth")]
                /\ loginAttempts' = la1
                /\ UNCHANGED <<req, resp>>
        /\ UNCHANGED <<links, theme, profile, config, auth, sess, now, nextId, failedLogins,
                       page>>

\* from the answer of readAuth() up to await bcrypt.compare(...)
LoginReadsAuth(k, fs) ==
    LET r == inflight[k].req
    IN  /\ inflight[k].out.code = "readAuth"
        /\ IF fs = "readError"
           THEN /\ LoginAnswers(r, 500, "SERVER_ERROR", {"readAuth"})
                /\ inflight' = [inflight EXCEPT ![k] = Idle]
                /\ UNCHANGED loginAttempts
           ELSE IF ~Truthy(auth.username) \/ ~Truthy(auth.passwordHash)
           THEN /\ LoginAnswers(r, 500, "AUTH_NOT_CONFIGURED", {"readAuth"})
                /\ inflight' = [inflight EXCEPT ![k] = Idle]
                /\ UNCHANGED loginAttempts
           ELSE IF ~usernameMatches(r.body.username, auth.username)
           THEN /\ LoginAnswers(r, 401, "INVALID_CREDENTIALS", {"readAuth"})
                /\ inflight' = [inflight EXCEPT ![k] = Idle]
                /\ loginAttempts' = recordLoginAttempt(loginAttempts, r.ip, now)
           ELSE /\ inflight' = [inflight EXCEPT ![k] = Suspended(r, "bcrypt.compare")]
                /\ UNCHANGED <<req, resp, loginAttempts>>
        /\ UNCHANGED <<links, theme, profile, config, auth, sess, now, nextId, failedLogins,
                       page>>

\* from the answer of bcrypt.compare(...) to the response
LoginCompares(k) ==
    LET r == inflight[k].req
        calls == {"readAuth", "bcrypt.compare"}
    IN  /\ inflight[k].out.code = "bcrypt.compare"
        /\ inflight' = [inflight EXCEPT ![k] = Idle]
        /\ IF ~IsString(r.body.password)
           THEN /\ LoginAnswers(r, 500, "SERVER_ERROR", calls)
                /\ UNCHANGED <<loginAttempts, sess>>
           ELSE IF ~bcryptCompare(r.body.password, auth.passwordHash)
           THEN /\ LoginAnswers(r, 401, "INVALID_CREDENTIALS", calls)
                /\ loginAttempts' = recordLoginAttempt(loginAttempts, r.ip, now)
                /\ UNCHANGED sess
           ELSE /\ LoginAnswers(r, 200, "OK", calls)
                /\ loginAttempts' = resetLoginAttempts(loginAttempts, r.ip)
                /\ sess' = [sess EXCEPT ![r.sid] = [isAuthenticated |-> TRUE,
                                                    username |-> r.body.username]]
        /\ UNCHANGED <<links, theme, profile, config, auth, now, nextId, failedLogins, page>>

----------------------------------------------------------------------------
(* The events of the admin page *)

backend == <<links, theme, profile, config, auth, loginAttempts, sess, now, nextId, req, resp,
             failedLogins, inflight>>

\* the admin types or deletes in the search field: an input event
InputEvent(v) ==
    /\ v # page.value
    /\ page.nextTimer <= MaxTimers
    /\ page' = [handleIconSearchInput([page EXCEPT !.value = v])
                    EXCEPT !.event = "input", !.lastInput = [t |-> page.clock, query |-> v]]
    /\ UNCHANGED backend

\* a timer that is due runs its callback, searchIcons
TimerFires ==
    /\ \E tm \in page.timers :
            /\ tm.due <= page.clock
            /\ LET after == pageSearchIcons([page EXCEPT !.timers = page.timers \ {tm}])
               IN  /\ after.fetches <= MaxFetches
                   /\ page' = [after EXCEPT !.event = "timer"]
    /\ UNCHANGED backend

\* the Enter key in the search field and the search button call searchIcons
SearchNow ==
    /\ LET after == pageSearchIcons(page)
       IN  /\ after.fetches <= MaxFetches
           /\ page' = [after EXCEPT !.event = "search"]
    /\ UNCHANGED backend

\* the answer to a search arrives
AnswerArrives(answer) ==
    /\ page.fetches > 0
    /\ page' = [afterFetch(page, answer) EXCEPT !.event = "answer"]
    /\ UNCHANGED backend

\* the Clear button or the reset of the form: no input event is dispatched
ClearSelection ==
    /\ page' = [clearIconSelection(page) EXCEPT !.event = "clear"]
    /\ UNCHANGED backend

\* loadConfig and the save of the configuration set isApiConfigured
ConfigLoaded(configured) ==
    /\ page' = [page EXCEPT !.isApiConfigured = configured, !.event = "config"]
    /\ UNCHANGED backend

ClockAdvances ==
    /\ page.clock + ClockStep <= MaxClockSteps * ClockStep
    /\ page' = [page EXCEPT !.clock = page.clock + ClockStep, !.event = "clock"]
    /\ UNCHANGED backend

----------------------------------------------------------------------------
(* utils/storage.js: a document is written as JSON text and read back.     *)
(* A JavaScript value is a record [t, v]; a string is the sequence of its  *)
(* characters, an array the sequence of its elements, an object the        *)
(* sequence of its members [key, val] in property order.  A JSON text is a *)
(* sequence of tokens [tok, v].                                            *)

JNull == [t |-> "null", v |-> <<>>]
JUndefined == [t |-> "undefined", v |-> <<>>]
JBool(b) == [t |-> "boolean", v |-> IF b THEN <<"true">> ELSE <<"false">>]
JNum(digits) == [t |-> "number", v |-> <<digits>>]
JStr(chars) == [t |-> "string", v |-> chars]
JArr(elements) == [t |-> "array", v |-> elements]
JObj(members) == [t |-> "object", v |-> members]
Member(key, val) == [key |-> key, val |-> val]

Tok(tok) == [tok |-> tok, v |-> <<>>]
StrTok(chars) == [tok |-> "str", v |-> chars]
NumTok(digits) == [tok |-> "num", v |-> <<digits>>]

\* the characters JSON.stringify escapes, by name
QUOTE == "QUOTE"
BACKSLASH == "BACKSLASH"
NEWLINE == "NEWLINE"

\* escape writing a backslash as it is
escapeQuoteOnly(chars) ==
    LET esc[i \in 0..Len(chars)] ==
            IF i = 0 THEN <<>>
            ELSE esc[i - 1] \o (CASE chars[i] = QUOTE -> <<BACKSLASH, QUOTE>>
                                   [] chars[i] = NEWLINE -> <<BACKSLASH, "n">>
                                   [] OTHER -> <<chars[i]>>)
    IN  esc[Len(chars)]

\* the content of a string between its quotes in a JSON text
escape(chars) ==
    LET esc[i \in 0..Len(chars)] ==
            IF i = 0 THEN <<>>
            ELSE esc[i - 1] \o (CASE chars[i] = QUOTE -> <<BACKSLASH, QUOTE>>
                                   [] chars[i] = BACKSLASH -> <<BACKSLASH, BACKSLASH>>
                                   [] chars[i] = NEWLINE -> <<BACKSLASH, "n">>
                                   [] OTHER -> <<chars[i]>>)
    IN  esc[Len(chars)]

\* the string a JSON string token stands for
RECURSIVE unescape(_)
unescape(chars) ==
    IF chars = <<>> THEN <<>>
    ELSE IF Head(chars) = BACKSLASH /\ Len(chars) >= 2
    THEN <<CASE chars[2] = "n" -> NEWLINE
             [] OTHER -> chars[2]>> \o unescape(SubSeq(chars, 3, Len(chars)))
    ELSE <<Head(chars)>> \o unescape(Tail(chars))

\* the members JSON.stringify writes: a property whose value is undefined
\* is left out
written(members) == SelectSeq(members, LAMBDA m : m.val # JUndefined)

\* JSON.stringify(data, null, 2): the tokens of the text, "ws" being the
\* line break and indentation
RECURSIVE JSONstringify(_)
JSONstringify(d) ==
    LET list(items, one(_)) ==
            LET text[i \in 0..Len(items)] ==
                    IF i = 0 THEN <<>>
                    ELSE text[i - 1] \o (IF i > 1 THEN <<Tok(",")>> ELSE <<>>)
                                     \o <<Tok("ws")>> \o one(items[i])
            IN  IF items = <<>> THEN <<>> ELSE text[Len(items)] \o <<Tok("ws")>>
    IN  CASE d.t = "null" -> <<Tok("null")>>
          [] d.t = "undefined" -> <<Tok("null")>>
          [] d.t = "boolean" -> <<Tok(d.v[1])>>
          [] d.t = "number" -> <<NumTok(d.v[1])>>
          [] d.t = "string" -> <<StrTok(escape(d.v))>>
          [] d.t = "array" ->
                <<Tok("[")>> \o list(d.v, LAMBDA e : JSONstringify(e)) \o <<Tok("]")>>
          [] d.t = "object" ->
                <<Tok("{")>>
                \o list(written(d.v),
                        LAMBDA m : <<StrTok(escape(m.key)), Tok(":"), Tok("ws")>>
                                   \o JSONstringify(m.val))
                \o <<Tok("}")>>

\* JSON.parse without the white space: the value at the head of the tokens
\* and the tokens after it
RECURSIVE parseValue(_)
RECURSIVE parseElements(_, _)
RECURSIVE parseMembers(_, _)
parseValue(ts) ==
    LET h == Head(ts)
        rest == Tail(ts)
    IN  CASE h.tok = "null" -> [val |-> JNull, rest |-> rest]
          [] h.tok = "true" -> [val |-> JBool(TRUE), rest |-> rest]
          [] h.tok = "false" -> [val |-> JBool(FALSE), rest |-> rest]
          [] h.tok = "num" -> [val |-> JNum(h.v[1]), rest |-> rest]
          [] h.tok = "str" -> [val |-> JStr(unescape(h.v)), rest |-> rest]
          [] h.tok = "[" ->
                IF Head(rest).tok = "]" THEN [val |-> JArr(<<>>), rest |-> Tail(rest)]
                ELSE parseElements(rest, <<>>)
          [] h.tok = "{" ->
                IF Head(rest).tok = "}" THEN [val |-> JObj(<<>>), rest |-> Tail(rest)]
                ELSE parseMembers(rest, <<>>)

parseElements(ts, done) ==
    LET e == parseValue(ts)
        elements == Append(done, e.val)
    IN  IF Head(e.rest).tok = ","
        THEN parseElements(Tail(e.rest), elements)
        ELSE [val |-> JArr(elements), rest |-> Tail(e.rest)]

parseMembers(ts, done) ==
    LET key == unescape(Head(ts).v)
        m == parseValue(Tail(Tail(ts)))
        members == Append(done, Member(key, m.val))
    IN  IF Head(m.rest).tok = ","
        THEN parseMembers(Tail(m.rest), members)
        ELSE [val |-> JObj(members), rest |-> Tail(m.rest)]

\* JSON.parse(data)
JSONparse(text) == parseValue(SelectSeq(text, LAMBDA tk : tk.tok # "ws")).val

\* the five files of DATA_DIR
Kinds == {"links", "theme", "profile", "auth", "config"}

\* the text of the file of a kind
FileOf(kind) ==
    CASE kind = "links" -> links
      [] kind = "theme" -> theme
      [] kind = "profile" -> profile
      [] kind = "auth" -> auth
      [] kind = "config" -> config

\* fs.writeFile(filePath, jsonString): the file of the kind gets the text
writeFile(kind, text) ==
    /\ links' = IF kind = "links" THEN text ELSE links
    /\ theme' = IF kind = "theme" THEN text ELSE theme
    /\ profile' = IF kind = "profile" THEN text ELSE profile
    /\ auth' = IF kind = "auth" THEN text ELSE auth
    /\ config' = IF kind = "config" THEN text ELSE config

\* writeLinks, writeTheme, writeProfile, writeAuth, writeConfig: data is
\* written with writeJSONFile, which throws when fs.writeFile fails
Write(kind, data, fs) ==
    /\ writeFile(kind, IF fs = "ok" THEN JSONstringify(data) ELSE FileOf(kind))
    /\ req' = [op |-> "write", kind |-> kind, body |-> data, fs |-> fs]
    /\ resp' = IF fs = "ok"
               THEN [status |-> 200, code |-> "OK", calls |-> {"fs.writeFile"},
                     data |-> NoData]
               ELSE [status |-> 500, code |-> "Error writing file",
                     calls |-> {"fs.writeFile"}, data |-> NoData]
    /\ UNCHANGED <<loginAttempts, sess, now, nextId, failedLogins, inflight, page>>

\* readLinks, readTheme, readProfile, readAuth, readConfig: readJSONFile
\* returns what JSON.parse makes of the text of the file
Read(kind, fs) ==
    /\ req' = [op |-> "read", kind |-> kind, body |-> JUndefined, fs |-> fs]
    /\ resp' = IF fs = "ok"
               THEN [status |-> 200, code |-> "OK", calls |-> {"fs.readFile"},
                     data |-> JSONparse(FileOf(kind))]
               ELSE [status |-> 500, code |-> "Error reading file",
                     calls |-> {"fs.readFile"}, data |-> NoData]
    /\ UNCHANGED <<links, theme, profile, config, auth, loginAttempts, sess, now, nextId,
                   failedLogins, inflight, page>>

----------------------------------------------------------------------------
(* The inputs of the model *)

GoodLogin == [username |-> Str(<<"admin">>), password |-> Str(<<"admin123">>)]

Word == Str(<<"x">>)
UrlA == Str(<<"http://a.example">>)
UrlB == Str(<<"https://b.example">>)
UrlFtp == Str(<<"ftp://c.example">>)

\* the linkIds of a reorder request: not a list, or a list of identifiers
Payloads ==
    {NoList} \cup
    {[isArray |-> TRUE, ids |-> ids] :
        ids \in UNION {[1..n -> 1..MaxIds] : n \in 0..MaxPayload}}

OrderCreateBodies ==
    {LinkBody(Word, UrlA, Undefined, Undefined, Undefined, Undefined, Undefined),
     LinkBody(Word, UrlFtp, Undefined, Undefined, Undefined, Undefined, Undefined)}

OrderUpdateBodies ==
    {[LinkBody(Str(<<SP, "x", SP>>), Undefined, Undefined, Undefined, Undefined, Undefined,
               Undefined)
        EXCEPT !.id = Num, !.order = Num],
     LinkBody(Undefined, UrlFtp, Undefined, Undefined, Undefined, Undefined, Bool(TRUE))}

----------------------------------------------------------------------------
(* The links collection under create, update, delete and reorder *)

Next ==
    \/ Login("s1", "ip1", GoodLogin, "ok")
    \/ Logout("s1", TRUE)
    \/ \E body \in OrderCreateBodies, fs \in FsResults :
            PostLinks("s1", body, fs, MaxIds)
    \/ \E payload \in Payloads, fs \in FsResults :
            PutReorder("s1", payload, fs)
    \/ \E id \in 1..MaxIds, body \in OrderUpdateBodies, fs \in FsResults :
            PutLink("s1", id, body, fs)
    \/ \E id \in 1..MaxIds, fs \in FsResults :
            DeleteLink("s1", id, fs)

Spec == Init /\ [][Next]_vars

----------------------------------------------------------------------------
(* Logins from two addresses while the clock advances *)

LoginBodies ==
    {GoodLogin,
     [username |-> Str(<<"admin">>), password |-> Str(<<"letmein">>)],
     [username |-> Str(<<"Admin">>), password |-> Str(<<"admin123">>)],
     [username |-> Str(<<"admin">>), password |-> Undefined]}

NextAuth ==
    \/ \E ip \in Addrs, body \in LoginBodies, fs \in {"ok", "readError"} :
            Login("s1", ip, body, fs)
    \/ \E s \in Sessions, storeOk \in BOOLEAN : Logout(s, storeOk)
    \/ \E s \in Sessions : AuthStatus(s)
    \/ \E s \in Sessions : GetAdminLinks(s)
    \/ Tick

SpecAuth == Init /\ [][NextAuth]_vars

----------------------------------------------------------------------------
(* The logins of one address, with their history *)

NextLimiter ==
    \/ \E body \in LoginBodies, fs \in {"ok", "readError"} :
            ObservedLogin("s1", "ip1", body, fs)
    \/ Logout("s1", TRUE)
    \/ Tick

SpecLimiter == Init /\ [][NextLimiter]_vars

----------------------------------------------------------------------------
(* The fields of a few links under create, update and delete *)

Png == Str(<<"https://b.example/p.png">>)

FieldCreateBodies ==
    {LinkBody(Word, UrlA, Undefined, Undefined, Undefined, Undefined, Undefined),
     LinkBody(Str(<<SP, "x">>), UrlA, Image, Str(<<"https://b.example/p.png", SP>>),
              Undefined, Undefined, Bool(FALSE)),
     LinkBody(Word, UrlA, Icon, Undefined, Word, Undefined, Undefined)}

FieldUpdateBodies ==
    {LinkBody(Str(<<SP, "x", SP>>), Undefined, Undefined, Undefined, Undefined, Undefined,
              Undefined),
     LinkBody(Undefined, Str(<<SP, "http://a.example">>), Undefined, Undefined, Undefined,
              Undefined, Undefined),
     LinkBody(Undefined, Undefined, Undefined, Undefined, Undefined, Undefined, Bool(FALSE)),
     [LinkBody(Undefined, Undefined, Undefined, Undefined, Undefined, Undefined, Bool(TRUE))
        EXCEPT !.id = Num, !.order = Num],
     LinkBody(Undefined, Undefined, None, Undefined, Undefined, Undefined, Undefined),
     LinkBody(Undefined, Undefined, Image, Png, Word, UrlA, Undefined),
     LinkBody(Undefined, Undefined, Undefined, Png, Undefined, Undefined, Undefined),
     LinkBody(Undefined, Undefined, Icon, Undefined, Str(<<"x", SP>>), UrlA, Undefined),
     LinkBody(Undefined, Undefined, Image, Undefined, Undefined, Undefined, Undefined),
     LinkBody(Num, Undefined, Undefined, Undefined, Undefined, Undefined, Bool(FALSE))}

NextFields ==
    \/ Login("s1", "ip1", GoodLogin, "ok")
    \/ \E body \in FieldCreateBodies : PostLinks("s1", body, "ok", MaxFieldLinks)
    \/ \E id \in 1..MaxFieldLinks, body \in FieldUpdateBodies, fs \in {"ok", "writeError"} :
            PutLink("s1", id, body, fs)
    \/ \E id \in 1..MaxFieldLinks : DeleteLink("s1", id, "ok")

SpecFields == Init /\ [][NextFields]_vars

----------------------------------------------------------------------------
(* Every admin operation, from a session that logged in and one that did not *)

ThemeBody(backgroundColor, backgroundImageUrl) ==
    [backgroundColor |-> backgroundColor, backgroundImageUrl |-> backgroundImageUrl,
     textColor |-> Undefined, buttonColor |-> Undefined, buttonTextColor |-> Undefined]

ThemeBodies ==
    {ThemeBody(Color("0", "0", "0", "0", "0", "0"), Undefined),
     ThemeBody(Undefined, UrlFtp)}

ProfileBodies ==
    {[photoUrl |-> Png, bio |-> Undefined],
     [photoUrl |-> Undefined, bio |-> Str(<<"x500", "x">>)]}

ConfigBodies ==
    {[nounProjectApiKey |-> Word, nounProjectApiSecret |-> Word],
     [nounProjectApiKey |-> Word, nounProjectApiSecret |-> EmptyStr]}

AdminLinkBody == LinkBody(Word, UrlA, Undefined, Undefined, Undefined, Undefined, Undefined)
AdminLinkUpdate == LinkBody(Undefined, UrlB, Undefined, Undefined, Undefined, Undefined, Undefined)

NextAdmin ==
    \/ \E s \in Sessions : Login(s, "ip1", GoodLogin, "ok")
    \/ \E s \in Sessions : Logout(s, TRUE)
    \/ \E s \in Sessions : GetAdminLinks(s)
    \/ \E s \in Sessions : PostLinks(s, AdminLinkBody, "ok", 1)
    \/ \E s \in Sessions : PutReorder(s, [isArray |-> TRUE, ids |-> <<1>>], "ok")
    \/ \E s \in Sessions : PutLink(s, 1, AdminLinkUpdate, "ok")
    \/ \E s \in Sessions : DeleteLink(s, 1, "ok")
    \/ \E s \in Sessions, body \in ThemeBodies : PutTheme(s, body, "ok")
    \/ \E s \in Sessions, body \in ProfileBodies : PutProfile(s, body, "ok")
    \/ \E s \in Sessions, fs \in {"ok", "readError"} : GetConfig(s, fs)
    \/ \E s \in Sessions, body \in ConfigBodies, fs \in {"ok", "writeError"} :
            PutConfig(s, body, fs)
    \/ \E s \in Sessions, query \in {Word, EmptyStr}, upstream \in {"ok", "notOk"} :
            SearchIcons(s, query, "ok", upstream)

SpecAdmin == Init /\ [][NextAdmin]_vars

----------------------------------------------------------------------------
(* The public list of links while links are hidden, shown and reordered *)

ActiveBody(active) ==
    LinkBody(Undefined, Undefined, Undefined, Undefined, Undefined, Undefined, active)

\* active as a boolean and as the string "false"
PublicUpdateBodies ==
    {ActiveBody(Bool(FALSE)), ActiveBody(Bool(TRUE)), ActiveBody(Str(<<"false">>))}

NextPublic ==
    \/ Login("s1", "ip1", GoodLogin, "ok")
    \/ PostLinks("s1", AdminLinkBody, "ok", MaxFieldLinks)
    \/ \E id \in 1..MaxFieldLinks, body \in PublicUpdateBodies : PutLink("s1", id, body, "ok")
    \/ \E ids \in {<<>>, <<2, 1>>} : PutReorder("s1", [isArray |-> TRUE, ids |-> ids], "ok")
    \/ \E id \in 1..MaxFieldLinks : DeleteLink("s1", id, "ok")
    \/ \E fs \in {"ok", "readError"} : GetLinks(fs)
    \/ GetAdminLinks("s1")

SpecPublic == Init /\ [][NextPublic]_vars

----------------------------------------------------------------------------
(* Writes to the links collection that overlap in time *)

\* reorder payloads that name a part of the links, all of them in reverse,
\* or one of them twice
RacePayloads ==
    {[isArray |-> TRUE, ids |-> ids] : ids \in {<<1>>, <<2, 1>>, <<1, 1>>}}

\* an update that writes the label the link has
RaceUpdate == LinkBody(Word, Undefined, Undefined, Undefined, Undefined, Undefined, Undefined)

\* the free slot a new handler takes: the slots are interchangeable
FreeSlot(k) == inflight[k] = Idle /\ (k = "h2" => inflight["h1"] # Idle)

NextRace ==
    \/ Login("s1", "ip1", GoodLogin, "ok")
    \/ \E k \in Slots : FreeSlot(k) /\ BeginPostLinks(k, "s1", AdminLinkBody, MaxRaceLinks)
    \/ \E k \in Slots, payload \in RacePayloads :
            FreeSlot(k) /\ BeginPutReorder(k, "s1", payload)
    \/ \E k \in Slots : FreeSlot(k) /\ BeginPutLink(k, "s1", 1, RaceUpdate)
    \/ \E k \in Slots, id \in 1..MaxRaceLinks :
            FreeSlot(k) /\ BeginDeleteLink(k, "s1", id)
    \/ \E k \in Slots : WriteLands(k)

SpecRace == Init /\ [][NextRace]_vars

----------------------------------------------------------------------------
(* One session that logs in, works and logs out *)

NextLogout ==
    \/ Login("s1", "ip1", GoodLogin, "ok")
    \/ \E storeOk \in BOOLEAN : Logout("s1", storeOk)
    \/ AuthStatus("s1")
    \/ GetAdminLinks("s1")
    \/ PostLinks("s1", AdminLinkBody, "ok", 1)
    \/ PutReorder("s1", [isArray |-> TRUE, ids |-> <<1>>], "ok")
    \/ PutLink("s1", 1, AdminLinkUpdate, "ok")
    \/ DeleteLink("s1", 1, "ok")
    \/ \E body \in ThemeBodies : PutTheme("s1", body, "ok")
    \/ \E body \in ProfileBodies : PutProfile("s1", body, "ok")
    \/ GetConfig("s1", "ok")
    \/ \E body \in ConfigBodies : PutConfig("s1", body, "ok")
    \/ SearchIcons("s1", Word, "ok", "ok")

SpecLogout == Init /\ [][NextLogout]_vars

----------------------------------------------------------------------------
(* Documents written to the five files and read back *)

\* the documents written to each file: arrays and objects, nested and
\* empty, strings with characters that are escaped, and for config an
\* object with a property that is undefined
StoredDocs ==
    [links |-> {JArr(<<>>),
                JArr(<<JObj(<<Member(<<"i", "d">>, JStr(<<"a">>)),
                              Member(<<"o">>, JNum("0")),
                              Member(<<"a">>, JBool(TRUE))>>)>>),
                JArr(<<JNull, JArr(<<JNum("-1.5")>>), JStr(<<>>)>>)},
     theme |-> {JObj(<<Member(<<"c">>, JStr(<<"#", "f", "0">>))>>),
                JObj(<<Member(<<"b">>, JObj(<<>>)), Member(<<"a">>, JArr(<<JBool(FALSE)>>))>>)},
     profile |-> {JObj(<<Member(<<"b", "i", "o">>,
                                JStr(<<"a", QUOTE, BACKSLASH, "n", NEWLINE>>))>>),
                  JStr(<<BACKSLASH, BACKSLASH, QUOTE>>)},
     auth |-> {JObj(<<Member(<<"u">>, JStr(<<"a">>)), Member(<<"p">>, JStr(<<"$", "2", "b">>))>>),
               JNull},
     config |-> {JObj(<<>>),
                 JObj(<<Member(<<QUOTE, "k">>, JNum("1")), Member(<<"s">>, JStr(<<>>))>>),
                 JObj(<<Member(<<"k">>, JUndefined), Member(<<"s">>, JStr(<<"x">>))>>)}]

\* every file holds the text of a document
InitStorage ==
    /\ links = JSONstringify(JArr(<<>>))
    /\ theme = JSONstringify(JObj(<<Member(<<"c">>, JStr(<<"#", "f", "0">>))>>))
    /\ profile = JSONstringify(JStr(<<BACKSLASH, BACKSLASH, QUOTE>>))
    /\ auth = JSONstringify(JNull)
    /\ config = JSONstringify(JObj(<<>>))
    /\ loginAttempts = <<>>
    /\ sess = [s \in Sessions |-> NoSession]
    /\ now = 0
    /\ nextId = 1
    /\ req = [op |-> "start", kind |-> "links", body |-> JUndefined, fs |-> "ok"]
    /\ resp = [status |-> 0, code |-> "", calls |-> {}, data |-> NoData]
    /\ failedLogins = [a \in Addrs |-> <<>>]
    /\ inflight = [k \in Slots |-> Idle]
    /\ page = PageLoaded

NextStorage ==
    \/ \E kind \in Kinds, fs \in {"ok", "writeError"} :
            \E data \in StoredDocs[kind] : Write(kind, data, fs)
    \/ \E kind \in Kinds, fs \in {"ok", "readError"} : Read(kind, fs)

SpecStorage == InitStorage /\ [][NextStorage]_vars

----------------------------------------------------------------------------
(* The url of a link under create and update *)

UrlOnly(url) ==
    LinkBody(Undefined, url, Undefined, Undefined, Undefined, Undefined, Undefined)

\* urls that are valid, of another scheme, relative, empty, blank, padded
\* with blanks, and not a string
UrlValues ==
    {UrlA, UrlB, UrlFtp, Word, EmptyStr, Str(<<SP>>), Str(<<SP, "http://a.example", SP>>),
     Num}

UrlCreateBodies == {[UrlOnly(url) EXCEPT !.label = Word] : url \in UrlValues}

UrlUpdateBodies == {UrlOnly(url) : url \in UrlValues}

NextUrls ==
    \/ Login("s1", "ip1", GoodLogin, "ok")
    \/ \E body \in UrlCreateBodies : PostLinks("s1", body, "ok", MaxFieldLinks)
    \/ \E id \in 1..MaxFieldLinks, body \in UrlUpdateBodies : PutLink("s1", id, body, "ok")
    \/ \E id \in 1..MaxFieldLinks : DeleteLink("s1", id, "ok")

SpecUrls == Init /\ [][NextUrls]_vars

----------------------------------------------------------------------------
(* The theme and the profile under their updates *)

ThemeFields ==
    {"backgroundColor", "backgroundImageUrl", "textColor", "buttonColor", "buttonTextColor"}

ThemeWith(field, value) == [[f \in ThemeFields |-> Undefined] EXCEPT ![field] = value]

Black == Color("0", "0", "0", "0", "0", "0")

\* colours that are valid, of 3 digits, of 8 digits, without "#", with a
\* digit that is not hexadecimal, padded with a blank, a number, and an array
\* of one valid colour
ColorValues ==
    {Black, Color("A", "b", "C", "d", "E", "f"), Str(<<"#", "f", "f", "f">>),
     Str(<<"#", "0", "0", "0", "0", "0", "0", "0", "0">>),
     Str(<<"0", "0", "0", "0", "0", "0", "0">>), Color("g", "0", "0", "0", "0", "0"),
     Str(<<"#", "0", "0", "0", "0", "0", "0", SP>>), Num, Arr(<<Black>>)}

ImageUrlValues ==
    {EmptyStr, Str(<<SP>>), UrlA, Str(<<SP, "http://a.example", SP>>), UrlFtp, Word, Num,
     Arr(<<UrlA>>)}

ThemeUpdateBodies ==
    {ThemeWith("backgroundColor", c) : c \in ColorValues}
        \cup {ThemeWith("buttonTextColor", c) : c \in {Black, Word, Arr(<<Black>>)}}
        \cup {ThemeWith("backgroundImageUrl", u) : u \in ImageUrlValues}
        \cup {[ThemeWith("textColor", Black) EXCEPT !.buttonColor = c] : c \in {Black, Word}}

\* bios of 500 characters, of 501, of 500 between blanks, and not a string
ProfileUpdateBodies ==
    {[photoUrl |-> Undefined, bio |-> bio] :
        bio \in {EmptyStr, Str(<<"x500">>), Str(<<"x500", "x">>), Str(<<SP, "x500", SP>>),
                 Str(<<"x500", SP, "x">>), Num, Arr(<<Word>>)}}
        \cup {[photoUrl |-> photoUrl, bio |-> Undefined] : photoUrl \in {Png, UrlA, EmptyStr}}

NextTheme ==
    \/ Login("s1", "ip1", GoodLogin, "ok")
    \/ \E body \in ThemeUpdateBodies, fs \in {"ok", "writeError"} : PutTheme("s1", body, fs)
    \/ \E body \in ProfileUpdateBodies, fs \in {"ok", "writeError"} :
            PutProfile("s1", body, fs)

SpecTheme == Init /\ [][NextTheme]_vars

----------------------------------------------------------------------------
(* Icon searches while the credentials of the icon service are set one by one *)

\* config.json as setup writes it without credentials, and without the fields
StartConfigs ==
    {ConfigEmpty, [nounProjectApiKey |-> Undefined, nounProjectApiSecret |-> Undefined]}

InitIcons == \E cf \in StartConfigs : StartWith(AuthConfigured, cf)

CredentialBodies ==
    {[nounProjectApiKey |-> Word, nounProjectApiSecret |-> Undefined],
     [nounProjectApiKey |-> Undefined, nounProjectApiSecret |-> Str(<<"x", SP>>)],
     [nounProjectApiKey |-> Word, nounProjectApiSecret |-> Str(<<SP>>)]}

\* queries that are absent, empty, blank, a word, a padded word, an array
Queries == {Undefined, EmptyStr, Str(<<SP>>), Word, Str(<<SP, "x">>), Arr(<<Word>>)}

NextIcons ==
    \/ Login("s1", "ip1", GoodLogin, "ok")
    \/ \E body \in CredentialBodies : PutConfig("s1", body, "ok")
    \/ \E s \in Sessions : GetConfig(s, "ok")
    \/ \E s \in Sessions, query \in Queries, fs \in {"ok", "readError"},
          upstream \in {"ok", "notOk", "networkError"} : SearchIcons(s, query, fs, upstream)

SpecIcons == InitIcons /\ [][NextIcons]_vars

----------------------------------------------------------------------------
(* Admin requests while the address of the client is locked out of the login *)

BadLogin == [username |-> Str(<<"admin">>), password |-> Str(<<"letmein">>)]

NextGuard ==
    \/ \E body \in {GoodLogin, BadLogin} : Login("s1", "ip1", body, "ok")
    \/ \E s \in Sessions : GetAdminLinks(s)
    \/ \E s \in Sessions : PostLinks(s, AdminLinkBody, "ok", 1)
    \/ \E s \in Sessions : PutReorder(s, [isArray |-> TRUE, ids |-> <<1>>], "ok")
    \/ \E s \in Sessions : PutLink(s, 1, AdminLinkUpdate, "ok")
    \/ \E s \in Sessions : DeleteLink(s, 1, "ok")
    \/ \E s \in Sessions, body \in ThemeBodies : PutTheme(s, body, "ok")
    \/ \E s \in Sessions, body \in ProfileBodies : PutProfile(s, body, "ok")
    \/ \E s \in Sessions : GetConfig(s, "ok")
    \/ \E s \in Sessions, body \in ConfigBodies : PutConfig(s, body, "ok")
    \/ \E s \in Sessions, upstream \in {"ok", "notOk"} : SearchIcons(s, Word, "ok", upstream)

SpecGuard == Init /\ [][NextGuard]_vars

----------------------------------------------------------------------------
(* Creates, reorders and updates that overlap in time; nothing deletes *)

NextOverwrite ==
    \/ Login("s1", "ip1", GoodLogin, "ok")
    \/ \E k \in Slots : FreeSlot(k) /\ BeginPostLinks(k, "s1", AdminLinkBody, MaxRaceLinks)
    \/ \E k \in Slots, ids \in {<<1>>, <<2, 1>>} :
            FreeSlot(k) /\ BeginPutReorder(k, "s1", [isArray |-> TRUE, ids |-> ids])
    \/ \E k \in Slots : FreeSlot(k) /\ BeginPutLink(k, "s1", 1, RaceUpdate)
    \/ \E k \in Slots : WriteLands(k)

SpecOverwrite == Init /\ [][NextOverwrite]_vars

----------------------------------------------------------------------------
(* The configuration routes under credentials of several values *)

KeyA == Str(<<"a">>)
KeyB == Str(<<"b">>)

SecretBodies ==
    {[nounProjectApiKey |-> key, nounProjectApiSecret |-> secret] :
        key \in {Undefined, KeyA, KeyB, EmptyStr}, secret \in {Undefined, KeyA, Str(<<SP, "b">>)}}

NextConfig ==
    \/ Login("s1", "ip1", GoodLogin, "ok")
    \/ \E body \in SecretBodies, fs \in FsResults : PutConfig("s1", body, fs)
    \/ \E s \in Sessions, fs \in {"ok", "readError"} : GetConfig(s, fs)

SpecConfig == InitIcons /\ [][NextConfig]_vars

----------------------------------------------------------------------------
(* The search field of the admin page under input events *)

\* the field empty, blank, and with one and two characters
FieldValues == {EmptyStr, Str(<<SP>>), Str(<<"a">>), Str(<<"a", "b">>)}

Answers == {"icons", "no icons", "not ok", "network error"}

NextDebounce ==
    \/ \E v \in FieldValues : InputEvent(v)
    \/ TimerFires
    \/ \E answer \in Answers : AnswerArrives(answer)
    \/ ClockAdvances

SpecDebounce == Init /\ [][NextDebounce]_vars

\* the same with the Enter key, the search button, the Clear button and the
\* configuration
NextIconSearch ==
    \/ \E v \in FieldValues : InputEvent(v)
    \/ TimerFires
    \/ SearchNow
    \/ \E answer \in Answers : AnswerArrives(answer)
    \/ ClearSelection
    \/ \E configured \in BOOLEAN : ConfigLoaded(configured)
    \/ ClockAdvances

SpecIconSearch == Init /\ [][NextIconSearch]_vars

----------------------------------------------------------------------------
(* Logins of one address that overlap in time *)

NextLoginRace ==
    \/ \E k \in Slots, body \in LoginBodies :
            FreeSlot(k) /\ LoginBegins(k, "s1", "ip1", body)
    \/ \E k \in Slots, fs \in {"ok", "readError"} : LoginReadsAuth(k, fs)
    \/ \E k \in Slots : LoginCompares(k)

SpecLoginRace == Init /\ [][NextLoginRace]_vars

----------------------------------------------------------------------------
(* The visual fields of a link under create and update *)

Blank == Str(<<SP>>)

\* bodies with and without visualType, with visual fields that are absent,
\* valid, blank, padded with blanks and of another scheme
VisualBodies ==
    {LinkBody(Undefined, Undefined, visualType, imageUrl, iconId, iconUrl, Undefined) :
        visualType \in {Undefined, None, Image, Icon},
        imageUrl \in {Undefined, Str(<<SP, "https://b.example/p.png">>), Blank, UrlFtp},
        iconId \in {Undefined, Word, Blank},
        iconUrl \in {Undefined, UrlA, Blank}}

VisualCreateBodies == {[body EXCEPT !.label = Word, !.url = UrlA] : body \in VisualBodies}

NextVisual ==
    \/ Login("s1", "ip1", GoodLogin, "ok")
    \/ \E body \in VisualCreateBodies : PostLinks("s1", body, "ok", MaxFieldLinks)
    \/ \E id \in 1..MaxFieldLinks, body \in VisualBodies : PutLink("s1", id, body, "ok")

SpecVisual == Init /\ [][NextVisual]_vars

----------------------------------------------------------------------------
(* Updates of the theme, the profile and the configuration that are refused *)

\* bodies of PUT /theme with valid fields before and after an invalid one
RefusedThemeBodies ==
    {[backgroundColor |-> backgroundColor, backgroundImageUrl |-> backgroundImageUrl,
      textColor |-> textColor, buttonColor |-> Undefined,
      buttonTextColor |-> buttonTextColor] :
        backgroundColor \in {Undefined, Black},
        backgroundImageUrl \in {Undefined, UrlFtp},
        textColor \in {Undefined, Black, Word},
        buttonTextColor \in {Undefined, Black, Word}}

\* a photo that is an image, a URL that is no image, and a bio of 501
RefusedProfileBodies ==
    {[photoUrl |-> photoUrl, bio |-> bio] :
        photoUrl \in {Undefined, Png, UrlA},
        bio \in {Undefined, Word, Str(<<"x500", "x">>)}}

RefusedConfigBodies ==
    {[nounProjectApiKey |-> key, nounProjectApiSecret |-> secret] :
        key \in {Undefined, KeyA, Blank}, secret \in {Undefined, KeyB, Blank}}

NextRefused ==
    \/ Login("s1", "ip1", GoodLogin, "ok")
    \/ \E body \in RefusedThemeBodies : PutTheme("s1", body, "ok")
    \/ \E body \in RefusedProfileBodies : PutProfile("s1", body, "ok")
    \/ \E body \in RefusedConfigBodies : PutConfig("s1", body, "ok")

SpecRefused == Init /\ [][NextRefused]_vars

----------------------------------------------------------------------------
(* Properties of the link ordering *)

IdsOf(ls) == [i \in DOMAIN ls |-> ls[i].id]

NoDuplicates(seq) == \A i, j \in DOMAIN seq : seq[i] = seq[j] => i = j

Without(seq, set) == SelectSeq(seq, LAMBDA x : x \notin set)

Range(seq) == {seq[i] : i \in DOMAIN seq}

DisplayOrder(ls) == IdsOf(sortByOrder(ls))

\* C1: after a successful reorder with a duplicate-free list of existing
\* identifiers, the links sorted by order are the named identifiers in
\* payload order followed by the others in the order they had in the sort by
\* order before the request
C1_ReorderKeepsDisplayOrderOfRemainder ==
    [][(/\ req'.op = "reorder"
        /\ resp'.status = 200
        /\ NoDuplicates(req'.linkIds.ids))
       => DisplayOrder(links') =
            req'.linkIds.ids \o Without(DisplayOrder(links), Range(req'.linkIds.ids))]_vars

\* C6: a reorder whose linkIds is not a list is answered 400 INVALID_INPUT,
\* one that names an identifier that does not exist is rejected (400
\* INVALID_LINK_ID when the collection could be read), and in both cases the
\* stored links are left exactly as they were
C6_ReorderAllOrNothing ==
    [][(req'.op = "reorder" /\ requireAuth(sess[req'.sid]))
       => /\ ~req'.linkIds.isArray
                => /\ links' = links
                   /\ resp'.status = 400
                   /\ resp'.code = "INVALID_INPUT"
          /\ (req'.linkIds.isArray /\ ~(Range(req'.linkIds.ids) \subseteq Ids(links)))
                => /\ links' = links
                   /\ resp'.status \in {400, 500}
                   /\ req'.fs # "readError" => resp'.code = "INVALID_LINK_ID"]_vars

\* C6 witness: a reorder was rejected for an unknown identifier that came
\* second in the list, after an existing one whose order the payload would
\* have changed
C6_Witness ==
    /\ req.op = "reorder"
    /\ resp.code = "INVALID_LINK_ID"
    /\ Len(req.linkIds.ids) = 2
    /\ req.linkIds.ids[1] \in Ids(links)
    /\ req.linkIds.ids[2] \notin Ids(links)
    /\ links[findIndex(links, req.linkIds.ids[1])].order # 0

\* C7: a successful create appends one link whose order is 0 in an empty
\* collection and the largest existing order plus one otherwise, which is
\* larger than every existing order; the existing links are unchanged
C7_CreateAppendsAtEnd ==
    [][(req'.op = "createLink" /\ resp'.status = 201)
       => /\ Len(links') = Len(links) + 1
          /\ SubSeq(links', 1, Len(links)) = links
          /\ LET new == links'[Len(links')]
             IN  /\ links = <<>> => new.order = 0
                 /\ links # <<>> => \E i \in DOMAIN links : new.order = links[i].order + 1
                 /\ \A i \in DOMAIN links : links[i].order < new.order
                 /\ DisplayOrder(links') = DisplayOrder(links) \o <<new.id>>]_vars

\* C7 witness: a link was created in a collection whose order values had a
\* gap, so its order is not the number of links that existed
C7_Witness ==
    /\ req.op = "createLink"
    /\ resp.status = 201
    /\ Len(links) >= 2
    /\ links[Len(links)].order > Len(links) - 1

\* C10: a delete removes the addressed link and nothing else, so the other
\* links keep their fields and their relative display order; a delete of an
\* unknown identifier is answered 404 and changes nothing
C10_DeleteRemovesOneLink ==
    [][req'.op = "deleteLink"
       => IF resp'.status = 200
          THEN /\ req'.id \in Ids(links)
               /\ links' = SelectSeq(links, LAMBDA l : l.id # req'.id)
               /\ DisplayOrder(links') = Without(DisplayOrder(links), {req'.id})
          ELSE /\ links' = links
               /\ (requireAuth(sess[req'.sid]) /\ req'.fs # "readError"
                        /\ req'.id \notin Ids(links))
                    => resp'.status = 404 /\ resp'.code = "NOT_FOUND"]_vars

\* C10 witness: a delete left two links whose array order is the reverse of
\* their display order, with a gap between their order values
C10_Witness ==
    /\ req.op = "deleteLink"
    /\ resp.status = 200
    /\ Len(links) = 2
    /\ links[1].order > links[2].order
    /\ links[1].order - links[2].order > 1

----------------------------------------------------------------------------
(* Properties of the update of a link *)

LinkFields == {"label", "url", "visualType", "imageUrl", "iconId", "iconUrl", "active"}

\* C8: an update changes neither the order nor the id of the addressed link
\* nor anything of another link, whatever its body and its outcome
C8_UpdateKeepsOrderAndOtherLinks ==
    [][req'.op = "updateLink"
       => /\ Len(links') = Len(links)
          /\ \A i \in DOMAIN links :
                /\ links'[i].id = links[i].id
                /\ links'[i].order = links[i].order
                /\ links[i].id # req'.id => links'[i] = links[i]]_vars

\* C8 witness: the second of two links was updated by a body that carried
\* an id and an order
C8_Witness ==
    /\ req.op = "updateLink"
    /\ resp.status = 200
    /\ req.body.order # Undefined
    /\ req.body.id # Undefined
    /\ Len(links) = 2
    /\ req.id = links[2].id
    /\ links[2].active = req.body.active

----------------------------------------------------------------------------
(* Properties of the guard of the admin routes *)

AdminOps ==
    {"getAdminLinks", "createLink", "reorder", "updateLink", "deleteLink", "updateTheme",
     "updateProfile", "getConfig", "updateConfig", "searchIcons"}

\* C3: an admin request whose session is not authenticated is answered
\* 401 UNAUTHORIZED, runs nothing of its handler (no read, no write, no call
\* of the icon service) and leaves every persisted document as it was
C3_AdminGuard ==
    [][(req'.op \in AdminOps /\ ~sess[req'.sid].isAuthenticated)
       => /\ resp'.status = 401
          /\ resp'.code = "UNAUTHORIZED"
          /\ resp'.calls = {}
          /\ UNCHANGED docs
          /\ nextId' = nextId]_vars

\* C3 witness: the delete of an existing link was refused to a session
\* that is not authenticated while another session is, and the link is
\* still there
C3_Witness ==
    /\ req.op = "deleteLink"
    /\ resp.status = 401
    /\ req.sid = "s2"
    /\ ~sess["s2"].isAuthenticated
    /\ sess["s1"].isAuthenticated
    /\ findIndex(links, req.id) # 0

----------------------------------------------------------------------------
(* Properties of the login and its rate limiter *)

\* an address is Locked at time t: five or more recorded attempts and less
\* than fifteen minutes since the first of them
Locked(la, ip, t) ==
    /\ ip \in DOMAIN la
    /\ la[ip].count >= 5
    /\ t - la[ip].firstAttempt < 15 * 60 * 1000

\* the step is a login POST
LoginHandled == req'.op = "login" /\ now' = now

\* C4: the flag isAuthenticated of a session becomes true only in a login
\* POST of that session that succeeds, and a login POST succeeds only when
\* the address is not Locked, the username equals the stored one and the
\* password verifies against the stored hash; it then deletes the rate-limit
\* entry of the address and stores the username in the session
C4_FlagOnlyThroughValidLogin ==
    [][/\ \A s \in Sessions :
            (~sess[s].isAuthenticated /\ sess'[s].isAuthenticated)
            => (LoginHandled /\ req'.sid = s /\ resp'.status = 200)
       /\ (LoginHandled /\ resp'.status = 200)
            => /\ ~Locked(loginAttempts, req'.ip, now)
               /\ req'.body.username = auth.username
               /\ auth.passwordHash = Hash(req'.body.password)
               /\ req'.ip \notin DOMAIN loginAttempts'
               /\ sess'[req'.sid].isAuthenticated
               /\ sess'[req'.sid].username = req'.body.username]_vars

\* C4 witness: a login from one address succeeded while the other address
\* is Locked
C4_Witness ==
    /\ req.op = "login"
    /\ resp.status = 200
    /\ req.ip = "ip1"
    /\ sess[req.sid].isAuthenticated
    /\ sess[req.sid].username = Str(<<"admin">>)
    /\ Locked(loginAttempts, "ip2", now)

\* C5: a login POST from a Locked address is answered 429 RATE_LIMITED
\* without a read of the auth record or a password verification and leaves
\* the rate-limit map and the sessions as they were; once fifteen minutes
\* have passed since the first recorded attempt of an entry that reached
\* five, a login POST from the address is no longer answered 429
C5_LockedRejectsWithoutEffect ==
    [][/\ (LoginHandled /\ Locked(loginAttempts, req'.ip, now))
            => /\ resp'.status = 429
               /\ resp'.code = "RATE_LIMITED"
               /\ resp'.calls = {}
               /\ loginAttempts' = loginAttempts
               /\ sess' = sess
       /\ (/\ LoginHandled
           /\ req'.ip \in DOMAIN loginAttempts
           /\ ~Locked(loginAttempts, req'.ip, now))
            => resp'.status # 429]_vars

\* C5 witness: a login with the right credentials was refused ten minutes
\* into the lockout of its address
C5_Witness ==
    /\ req.op = "login"
    /\ resp.status = 429
    /\ req.body = GoodLogin
    /\ req.ip \in DOMAIN loginAttempts
    /\ loginAttempts[req.ip].count = 5
    /\ now - loginAttempts[req.ip].firstAttempt = 2 * TickMs

\* the latest five failed logins of the address of the request lie within
\* fifteen minutes
FiveFailures ==
    LET h == failedLogins[req'.ip]
    IN  Len(h) = 5 /\ h[5].t - h[1].t < 15 * 60 * 1000

\* the request of the step arrives less than fifteen minutes after the first
\* of the latest failed logins of its address
InsideWindow == now - failedLogins[req'.ip][1].t < 15 * 60 * 1000

\* the login POST of the step carries the right credentials and the auth
\* record is readable
RightCredentials == req'.body = GoodLogin /\ req'.fs = "ok"

\* C2 as claimed: after five failed logins of an address within fifteen
\* minutes, its next login POST inside the fifteen minutes is answered 429,
\* and one with the right credentials once the fifteen minutes since the
\* first have passed succeeds
C2_FiveFailuresLock ==
    [][(LoginHandled /\ FiveFailures)
       => /\ InsideWindow => (resp'.status = 429 /\ resp'.code = "RATE_LIMITED")
          /\ (~InsideWindow /\ RightCredentials) => resp'.status = 200]_vars

\* C2 as amended: the same, for five failed logins the first of which
\* arrived when the address had no rate-limit entry
C2_FiveFailuresFromNewEntryLock ==
    [][(LoginHandled /\ FiveFailures /\ failedLogins[req'.ip][1].fresh)
       => /\ InsideWindow => (resp'.status = 429 /\ resp'.code = "RATE_LIMITED")
          /\ (~InsideWindow /\ RightCredentials)
                => (resp'.status = 200 /\ sess'[req'.sid].isAuthenticated)]_vars

\* C2 witness: after five failed logins spread over ten minutes, the first
\* of which opened the entry of the address, a login with the right
\* credentials was answered 429
C2_Witness ==
    /\ req.op = "login"
    /\ resp.status = 429
    /\ req.body = GoodLogin
    /\ Len(failedLogins[req.ip]) = 5
    /\ failedLogins[req.ip][1].fresh
    /\ failedLogins[req.ip][5].t - failedLogins[req.ip][1].t = 2 * TickMs
    /\ now = failedLogins[req.ip][5].t

----------------------------------------------------------------------------
(* Properties of the public list of links *)

\* C11: a successful GET /api/links answers with exactly the stored links
\* whose active is true, each once, in ascending order of their order value,
\* and a successful GET /api/admin/links with every stored link; neither
\* changes the stored collection
C11_PublicListsActiveLinks ==
    [][/\ (req'.op = "getLinks" /\ resp'.status = 200)
            => LET data == resp'.data
               IN  /\ Range(data) = {l \in Range(links) : l.active = Bool(TRUE)}
                   /\ NoDuplicates(data)
                   /\ \A i, j \in DOMAIN data : i < j => data[i].order <= data[j].order
                   /\ links' = links
       /\ (req'.op = "getAdminLinks" /\ resp'.status = 200)
            => (resp'.data = links /\ links' = links)]_vars

----------------------------------------------------------------------------
(* Properties of the order values *)

Orders(ls) == {ls[i].order : i \in DOMAIN ls}

\* the step is a write to the links collection that succeeded
WriteCompleted ==
    /\ req'.op \in {"createLink", "updateLink", "deleteLink", "reorder"}
    /\ resp'.status \in {200, 201}

\* C12 as claimed: after every completed write the order values of the N
\* stored links are exactly 0 .. N-1
C12_OrdersAreZeroToNMinusOne ==
    [][WriteCompleted => Orders(links') = 0..(Len(links') - 1)]_vars

\* C12 as amended: the order values are exactly 0 .. N-1 after a successful
\* reorder whose payload names no identifier twice; the other writes do not
\* renumber: a delete takes the order value of the deleted link away, a
\* create adds one value that was not there, an update keeps the values
C12_OrdersContiguousAfterReorder ==
    [][/\ (req'.op = "reorder" /\ resp'.status = 200 /\ NoDuplicates(req'.linkIds.ids))
            => Orders(links') = 0..(Len(links') - 1)
       /\ (req'.op = "deleteLink" /\ resp'.status = 200)
            => Orders(links') = Orders(links) \ {links[findIndex(links, req'.id)].order}
       /\ (req'.op = "createLink" /\ resp'.status = 201)
            => \E m \in Orders(links') :
                    m \notin Orders(links) /\ Orders(links') = Orders(links) \cup {m}
       /\ (req'.op = "updateLink" /\ resp'.status = 200)
            => Orders(links') = Orders(links)]_vars

\* C12 witness: three links were created and one deleted, and a reorder that
\* names one of the two remaining links left the order values 0 and 1
C12_Witness ==
    /\ req.op = "reorder"
    /\ resp.status = 200
    /\ nextId = 4
    /\ Len(links) = 2
    /\ Len(req.linkIds.ids) = 1
    /\ Orders(links) = {0, 1}

\* C13: no two stored links have the same order value, whatever writes to
\* the collection have completed and however they overlapped
C13_OrdersUnique ==
    \A i, j \in DOMAIN links : links[i].order = links[j].order => i = j

\* C13 witness: a reorder that names one link twice read the collection
\* after a delete had read it, and its write landed first: both links are
\* stored and the delete is still suspended
C13_Witness ==
    /\ req.op = "reorder"
    /\ resp.status = 200
    /\ req.linkIds.ids = <<1, 1>>
    /\ Len(links) = 2
    /\ \E k \in Slots : inflight[k].req.op = "deleteLink"

----------------------------------------------------------------------------
(* Properties of the logout *)

\* C14: a logout that succeeds leaves its session without the flag
\* isAuthenticated; the flag comes back only with a login of that session
\* that succeeds; and as long as the session is without it, GET
\* /api/auth/status reports isAuthenticated false and every admin route
\* answers 401
C14_LoggedOutUntilLogin ==
    [][/\ (req'.op = "logout" /\ resp'.status = 200) => ~sess'[req'.sid].isAuthenticated
       /\ \A s \in Sessions :
            (~sess[s].isAuthenticated /\ sess'[s].isAuthenticated)
            => (req'.op = "login" /\ req'.sid = s /\ resp'.status = 200)
       /\ (req'.op = "authStatus" /\ ~sess[req'.sid].isAuthenticated)
            => resp'.code = "isAuthenticated: false"
       /\ (req'.op \in AdminOps /\ ~sess[req'.sid].isAuthenticated)
            => (resp'.status = 401 /\ resp'.code = "UNAUTHORIZED")]_vars

\* C14 witness: the only session that ever logs in created a link, and its
\* delete of that link is now answered 401: it logged out in between
C14_Witness ==
    /\ req.op = "deleteLink"
    /\ req.sid = "s1"
    /\ resp.status = 401
    /\ findIndex(links, req.id) # 0
    /\ ~sess["s1"].isAuthenticated

----------------------------------------------------------------------------
(* Properties of the storage *)

\* the text of the file of a kind after the step
FileAfter(kind) ==
    CASE kind = "links" -> links'
      [] kind = "theme" -> theme'
      [] kind = "profile" -> profile'
      [] kind = "auth" -> auth'
      [] kind = "config" -> config'

\* a document that has a JSON text: no undefined in it
RECURSIVE JsonRepresentable(_)
JsonRepresentable(d) ==
    CASE d.t = "undefined" -> FALSE
      [] d.t = "array" -> \A i \in DOMAIN d.v : JsonRepresentable(d.v[i])
      [] d.t = "object" -> \A i \in DOMAIN d.v : JsonRepresentable(d.v[i].val)
      [] OTHER -> TRUE

\* C15: a read that follows a completed write of a JSON-representable
\* document d to the same kind returns d; a write changes the file of no
\* other kind, and what it leaves in its file does not depend on what the
\* file held
C15_WriteThenReadRoundTrip ==
    [][/\ (/\ req.op = "write" /\ resp.status = 200 /\ JsonRepresentable(req.body)
           /\ req'.op = "read" /\ req'.kind = req.kind /\ req'.fs = "ok")
            => (resp'.status = 200 /\ resp'.data = req.body /\ UNCHANGED docs)
       /\ req'.op = "write"
            => /\ \A kind \in Kinds \ {req'.kind} : FileAfter(kind) = FileOf(kind)
               /\ resp'.status = 200
                    => FileAfter(req'.kind) = JSONstringify(req'.body)]_vars

\* C15 witness: the profile with a quote, a backslash and a line break in
\* its bio was written over another profile and read back
C15_Witness ==
    /\ req.op = "read"
    /\ req.kind = "profile"
    /\ resp.status = 200
    /\ resp.data.t = "object"
    /\ resp.data.v[1].val = JStr(<<"a", QUOTE, BACKSLASH, "n", NEWLINE>>)

----------------------------------------------------------------------------
(* Properties of the stored urls *)

\* C16: every stored link's url is an absolute URL with scheme http or
\* https, whatever bodies create and update were given, a body that supplies
\* url as an empty string included
C16_StoredUrlsValid ==
    \A i \in DOMAIN links : isValidURL(links[i].url)

\* what the handlers do keep: a stored url is valid or the empty string (an
\* update whose url is "" skips the validation and stores it)
StoredUrlsValidOrEmpty ==
    \A i \in DOMAIN links : isValidURL(links[i].url) \/ links[i].url = EmptyStr

----------------------------------------------------------------------------
(* Properties of the stored theme and profile *)

\* "#" followed by exactly 6 hexadecimal digits
IsHexColor(v) ==
    /\ IsString(v)
    /\ Len(v.s) = 7
    /\ v.s[1] = "#"
    /\ \A i \in 2..7 : v.s[i] \in HexDigits

IsHttpUrl(v) ==
    /\ IsString(v)
    /\ v.s \in {<<"http://a.example">>, <<"https://b.example">>, <<"https://b.example/p.png">>}

\* C17: whatever theme and profile updates were made, each of the stored
\* theme's four colours is "#" followed by exactly 6 hexadecimal digits, its
\* backgroundImageUrl is empty or a valid http/https URL, and the stored
\* bio has at most 500 characters
C17_ThemeAndProfileValid ==
    /\ \A f \in {"backgroundColor", "textColor", "buttonColor", "buttonTextColor"} :
            IsHexColor(theme[f])
    /\ theme.backgroundImageUrl = EmptyStr \/ IsHttpUrl(theme.backgroundImageUrl)
    /\ IsString(profile.bio) /\ Length(profile.bio) <= 500

\* what the handlers do keep: a stored colour is such a string or an array
\* that holds one (the pattern is tested on the value converted to a string,
\* the value itself is stored)
ThemeAndProfileValidAsStrings ==
    /\ \A f \in {"backgroundColor", "textColor", "buttonColor", "buttonTextColor"} :
            IsHexColor(Str(JSToString(theme[f])))
    /\ theme.backgroundImageUrl = EmptyStr \/ IsHttpUrl(theme.backgroundImageUrl)
    /\ IsString(profile.bio) /\ Length(profile.bio) <= 500

----------------------------------------------------------------------------
(* Properties of the icon search *)

\* a credential that is present and not empty
CredentialSet(v) == IsString(v) /\ v.s # <<>>

BothCredentialsSet == CredentialSet(config.nounProjectApiKey)
                        /\ CredentialSet(config.nounProjectApiSecret)

\* an icon search of an authenticated session whose read of config.json
\* succeeds
SearchHandled ==
    /\ req'.op = "searchIcons"
    /\ sess[req'.sid].isAuthenticated
    /\ req'.fs = "ok"

NotConfiguredAnswer ==
    /\ resp'.status = 503
    /\ resp'.code = "API_NOT_CONFIGURED"
    /\ "fetch" \notin resp'.calls

\* C18 as stated: with an empty or absent key or secret, an icon search
\* with a non-empty query is answered 503 API_NOT_CONFIGURED and no request
\* goes to the icon service; a request goes there only when both
\* credentials are non-empty
C18_NonEmptyQueryNotConfigured ==
    [][/\ (SearchHandled /\ Truthy(req'.body.query) /\ ~BothCredentialsSet)
            => NotConfiguredAnswer
       /\ (req'.op = "searchIcons" /\ "fetch" \in resp'.calls) => BothCredentialsSet]_vars

\* C18: with an empty or absent key or secret, an icon search whose query
\* is a string that is not blank is answered 503 API_NOT_CONFIGURED and no
\* request goes to the icon service; a query that is empty or blank is
\* answered 400 MISSING_QUERY, whatever the credentials; a request goes to
\* the icon service only when both credentials are non-empty
C18_NotConfiguredNoUpstream ==
    [][/\ (/\ SearchHandled
           /\ IsString(req'.body.query)
           /\ Trim(req'.body.query) # EmptyStr
           /\ ~BothCredentialsSet)
            => NotConfiguredAnswer
       /\ (/\ SearchHandled
           /\ IsString(req'.body.query)
           /\ Trim(req'.body.query) = EmptyStr)
            => (resp'.status = 400 /\ resp'.code = "MISSING_QUERY" /\ resp'.calls = {})
       /\ (req'.op = "searchIcons" /\ "fetch" \in resp'.calls) => BothCredentialsSet]_vars

\* C18 witness: with the key set and the secret empty, the search for a
\* word was answered 503 without a call of the icon service
C18_Witness ==
    /\ req.op = "searchIcons"
    /\ req.body.query = Word
    /\ CredentialSet(config.nounProjectApiKey)
    /\ ~CredentialSet(config.nounProjectApiSecret)
    /\ resp.status = 503
    /\ "fetch" \notin resp.calls

----------------------------------------------------------------------------
(* Properties of the rate-limit entries *)

\* the login POST of the step comes from an address whose entry has a first
\* attempt more than fifteen minutes old
FromExpiredEntry ==
    /\ LoginHandled
    /\ req'.ip \in DOMAIN loginAttempts
    /\ now - loginAttempts[req'.ip].firstAttempt > 15 * 60 * 1000

\* the old entry is gone: a failed attempt has opened a new one, with count 1
\* and the time of the attempt, and no other entry is left for the address
OldEntryGone ==
    /\ resp'.status \in {400, 401}
            => /\ req'.ip \in DOMAIN loginAttempts'
               /\ loginAttempts'[req'.ip] = [count |-> 1, firstAttempt |-> now]
    /\ req'.ip \in DOMAIN loginAttempts' => loginAttempts'[req'.ip].firstAttempt = now

\* C19: a login POST from an address whose rate-limit entry has a first
\* attempt more than fifteen minutes old finds the entry cleared, whatever
\* its count, so that a failed attempt starts a new window with count 1 and
\* the time of the attempt as first-attempt timestamp
C19_ExpiredEntryCleared ==
    [][FromExpiredEntry => OldEntryGone]_vars

\* what the handler does keep: the same for the entries whose count has
\* reached five, the only ones isRateLimited deletes
ExpiredFullEntryCleared ==
    [][(FromExpiredEntry /\ loginAttempts[req'.ip].count >= 5) => OldEntryGone]_vars

\* the login POST of the step comes from an address that is not Locked and
\* whose entry, if it has one, is less than fifteen minutes old
FromOpenWindow ==
    /\ LoginHandled
    /\ ~Locked(loginAttempts, req'.ip, now)
    /\ req'.ip \in DOMAIN loginAttempts
            => now - loginAttempts[req'.ip].firstAttempt < 15 * 60 * 1000

\* the attempt was counted: a new entry with count 1 and the time of the
\* attempt, or the existing entry with one more and its timestamp unchanged
AttemptCounted ==
    /\ req'.ip \in DOMAIN loginAttempts'
    /\ loginAttempts'[req'.ip] =
            IF req'.ip \in DOMAIN loginAttempts
            THEN [count |-> loginAttempts[req'.ip].count + 1,
                  firstAttempt |-> loginAttempts[req'.ip].firstAttempt]
            ELSE [count |-> 1, firstAttempt |-> now]

\* C20: every login POST from an address that is not Locked is counted,
\* whatever its outcome (missing fields, wrong username, wrong password,
\* unconfigured or unreadable auth record), but for a success, which clears
\* the entry
C20_EveryAttemptCounts ==
    [][FromOpenWindow
       => IF resp'.status = 200 THEN req'.ip \notin DOMAIN loginAttempts'
          ELSE AttemptCounted]_vars

\* what the handler does keep: the same for the attempts answered 400 or
\* 401, the ones that call recordLoginAttempt; an attempt answered 500 leaves
\* the map as it was
FailedAttemptCounts ==
    [][FromOpenWindow
       => /\ resp'.status = 200 => req'.ip \notin DOMAIN loginAttempts'
          /\ resp'.status \in {400, 401} => AttemptCounted
          /\ resp'.status = 500 => loginAttempts' = loginAttempts]_vars

----------------------------------------------------------------------------
(* Properties of the admin guard and the rate limiter *)

\* C21: an admin request leaves the rate-limit map and the sessions as they
\* were, whether it is admitted or refused, and a request of an
\* authenticated session is admitted (never 401, never 429) whatever the
\* rate-limit map holds, its own address being Locked included
C21_GuardIgnoresRateLimiter ==
    [][req'.op \in AdminOps
       => /\ loginAttempts' = loginAttempts
          /\ sess' = sess
          /\ sess[req'.sid].isAuthenticated => resp'.status \notin {401, 429}
          /\ ~sess[req'.sid].isAuthenticated => (resp'.status = 401 /\ UNCHANGED docs)]_vars

\* C21 witness: a link was created by the authenticated session while the
\* one address of the model is Locked
C21_Witness ==
    /\ req.op = "createLink"
    /\ resp.status = 201
    /\ sess[req.sid].isAuthenticated
    /\ Locked(loginAttempts, "ip1", now)
    /\ Len(links) = 1

----------------------------------------------------------------------------
(* Properties of overlapping writes *)

\* the write of handler k lands in this step
Lands(k) == inflight[k] # Idle /\ inflight'[k] = Idle

\* C22: a stored link leaves the stored document, with no request that
\* deletes, exactly through the landing of a write whose handler read the
\* document before the link was stored: the later write overwrites the
\* earlier one.  A write whose handler read the document as it is stored now
\* loses nothing.
C22_LinkLostOnlyToStaleWrite ==
    [][\A id \in Range(IdsOf(links)) \ Range(IdsOf(links')) :
            \E k \in Slots : Lands(k) /\ id \notin Range(IdsOf(inflight[k].snap))]_vars

\* C22 witness: two creates were answered 201 (two identifiers are handed
\* out and no handler is suspended), nothing deletes, and only the link of
\* the create that landed last is stored
C22_Witness ==
    /\ req.op = "createLink"
    /\ resp.status = 201
    /\ \A k \in Slots : inflight[k] = Idle
    /\ nextId = 3
    /\ Len(links) = 1

----------------------------------------------------------------------------
(* Properties of the configuration routes *)

\* both credentials of a config are present and not empty
BothSet(cf) == CredentialSet(cf.nounProjectApiKey) /\ CredentialSet(cf.nounProjectApiSecret)

\* C23: the answer of GET /api/admin/config and of a PUT /api/admin/config
\* that succeeds is a function of one boolean of the stored config: it
\* holds nounProjectConfigured, true exactly when both key and secret are
\* non-empty, and nothing else that depends on the config, so two configs
\* that differ in the values of non-empty credentials are answered alike
C23_ConfigAnswerIsOneBoolean ==
    [][/\ (req'.op = "getConfig" /\ resp'.status = 200)
            => resp' = [status |-> 200,
                        code |-> IF BothSet(config) THEN "nounProjectConfigured: true"
                                 ELSE "nounProjectConfigured: false",
                        calls |-> {"readConfig"},
                        data |-> [nounProjectConfigured |-> BothSet(config)]]
       /\ (req'.op = "updateConfig" /\ resp'.status = 200)
            => resp' = [status |-> 200, code |-> "OK",
                        calls |-> {"readConfig", "writeConfig"},
                        data |-> [success |-> TRUE,
                                  message |-> "Configuration updated successfully",
                                  nounProjectConfigured |-> BothSet(config')]]]_vars

\* C23 witness: the status was asked for while key and secret are set to
\* two different values, and the answer is true
C23_Witness ==
    /\ req.op = "getConfig"
    /\ resp.status = 200
    /\ resp.data.nounProjectConfigured
    /\ config.nounProjectApiKey = KeyA
    /\ config.nounProjectApiSecret = KeyB

----------------------------------------------------------------------------
(* Properties of the icon search of the admin page *)

C25_EmptyFieldEmptyResults ==
    page.lastInput.query = EmptyStr => page.results = ""

\* what the page does keep: with the field left empty, the container is
\* empty or shows the answer to a search sent before (icons, no icons, an
\* error); no search is sent and no timer is left
EmptyFieldResultsOnlyFromAnswers ==
    page.lastInput.query = EmptyStr
        => /\ page.results \in {"", "icons", "empty", "error"}
           /\ page.timers = {}

----------------------------------------------------------------------------
(* Properties of logins that overlap *)

\* C26: however the login requests of an address overlap, its recorded
\* count never exceeds 5
C26_CountAtMostFive ==
    \A a \in DOMAIN loginAttempts : loginAttempts[a].count <= 5

\* what the handler does keep: a handler passes the rate-limit check only
\* while the count is 4 or less, so the count and the handlers that passed
\* the check and are suspended before they record their attempt make at
\* most 4 plus the number of handlers that can be suspended at a time
CountAtMostFourPlusSuspended ==
    \A a \in DOMAIN loginAttempts :
        loginAttempts[a].count + Cardinality({k \in Slots : inflight[k] # Idle})
            <= 4 + Cardinality(Slots)

----------------------------------------------------------------------------
(* Properties of the visual fields *)

\* the visual fields of a link agree with its visualType; emptyIconId tells
\* whether the iconId of a link of type icon may be the empty string
VisualFieldsAgree(link, emptyIconId) ==
    CASE link.visualType = None ->
            link.imageUrl = EmptyStr /\ link.iconId = EmptyStr /\ link.iconUrl = EmptyStr
      [] link.visualType = Image ->
            IsHttpUrl(link.imageUrl) /\ link.iconId = EmptyStr /\ link.iconUrl = EmptyStr
      [] link.visualType = Icon ->
            /\ IsString(link.iconId)
            /\ emptyIconId \/ link.iconId # EmptyStr
            /\ IsHttpUrl(link.iconUrl)
            /\ link.imageUrl = EmptyStr
      [] OTHER -> FALSE

\* C27: every stored link's visual fields agree with its visualType: none
\* has the three fields empty; image has a valid http/https imageUrl and
\* empty icon fields; icon has a non-empty iconId, a valid http/https
\* iconUrl and an empty imageUrl
C27_VisualFieldsAgree ==
    \A i \in DOMAIN links : VisualFieldsAgree(links[i], FALSE)

\* what the handlers do keep: the same but for the iconId of a link of type
\* icon, which is a string that may be empty (a blank iconId passes the
\* check and is stored trimmed)
VisualFieldsAgreeButIconId ==
    \A i \in DOMAIN links : VisualFieldsAgree(links[i], TRUE)

----------------------------------------------------------------------------
(* Properties of the refused updates *)

DocumentUpdates == {"updateTheme", "updateProfile", "updateConfig"}

\* the step is a PUT to the theme, the profile or the configuration that is
\* answered with a validation error
Refused == req'.op \in DocumentUpdates /\ resp'.status = 400

\* C28: a PUT to /api/admin/theme, /profile or /config that is answered 400
\* leaves the persisted documents unchanged in every field, also when fields
\* examined before the invalid one were valid and set on the copy in memory
C28_RefusedUpdateWritesNothing ==
    [][Refused => theme' = theme /\ profile' = profile /\ config' = config /\
                  "writeTheme" \notin resp'.calls /\ "writeProfile" \notin resp'.calls /\
                  "writeConfig" \notin resp'.calls]_vars

\* a PUT /theme refused for its textColor after its valid backgroundColor,
\* another than the stored one, had been set on the copy in memory
C28_Witness ==
    /\ req.op = "updateTheme"
    /\ resp.status = 400
    /\ isValidHexColor(req.body.backgroundColor)
    /\ ~isValidHexColor(req.body.textColor)
    /\ theme.backgroundColor # req.body.backgroundColor

----------------------------------------------------------------------------
(* Properties of the rate limiter across addresses *)

\* the map with the entry of one address only
OwnEntry(la, ip) == [a \in DOMAIN la \cap {ip} |-> la[a]]

\* C29: a login POST from one address never creates, changes or deletes
\* the rate-limit entry of another address, and it is refused as
\* rate-limited exactly when the entry of its own address, alone, says so
C29_OtherAddressesUntouched ==
    [][LoginHandled =>
            /\ \A b \in Addrs \ {req'.ip} :
                    OwnEntry(loginAttempts', b) = OwnEntry(loginAttempts, b)
            /\ resp'.status = 429 <=>
                    Locked(OwnEntry(loginAttempts, req'.ip), req'.ip, now)]_vars

\* a login from ip1 has succeeded, and deleted the entry of ip1, while ip2
\* is locked out
C29_Witness ==
    /\ req.op = "login"
    /\ req.ip = "ip1"
    /\ resp.status = 200
    /\ "ip1" \notin DOMAIN loginAttempts
    /\ Locked(loginAttempts, "ip2", now)

----------------------------------------------------------------------------
(* Properties of a repeated reorder *)

\* the last request was a reorder that was applied
Reordered == req.op = "reorder" /\ resp.status = 200

\* the step applies once more the payload of the reorder applied last
ReorderedAgain ==
    /\ Reordered
    /\ req'.op = "reorder"
    /\ req'.linkIds = req.linkIds
    /\ resp'.status = 200

\* C30: reorder is idempotent: a valid payload applied a second time, right
\* after it was applied, leaves every link with the order it has
C30_ReorderIdempotent ==
    [][ReorderedAgain =>
            /\ DOMAIN links' = DOMAIN links
            /\ \A i \in DOMAIN links : links'[i].order = links[i].order]_vars

\* a payload that names two of three links, the last created first, has
\* been applied: the links are shown in another order than they were
\* created in, and applying the payload to them gives them again
C30_Witness ==
    /\ Reordered
    /\ Len(links) = 3
    /\ Len(req.linkIds.ids) = 2
    /\ req.linkIds.ids[1] = links[3].id
    /\ DisplayOrder(links) # IdsOf(links)
    /\ reorderLinks(links, req.linkIds.ids) = links

====
